---- MODULE Spec2Model ----
(***************************************************************************)
(* A model of DistroBuildSync (distrobuildsync/{config,kojihelpers,        *)
(* listener,daemon}.py): the configuration loader and reloader, the        *)
(* message classifier, the batch coalescer, the rebuild orchestrator and   *)
(* the awaited-repo registry.                                              *)
(*                                                                         *)
(* Strings that the code parses or formats (tags, topics, component names, *)
(* NVRs, SCM URLs) are sequences of one-character strings, so that         *)
(* startswith/endswith/replace/split are computed as Python computes them. *)
(* Configuration keys and route templates are TLA+ strings built with \o.  *)
(***************************************************************************)
EXTENDS Integers, Sequences, FiniteSets, TLC

VARIABLES
    \* ---- config.py module globals
    main,            \* config.main   (None before the first load)
    comps,           \* config.comps
    config_ref,      \* config.config_ref
    retry,           \* config.retry
    retries_attr,    \* the module attribute config.retries (a function, or
                     \* whatever daemon.main() assigned to it)
    dry_run,         \* config.dry_run
    distrogitsync,   \* config.distrogitsync: the endpoint's URL, or None
    gitsync_up,      \* environment: whether the endpoint answers requests
    \* ---- the configuration repository (environment) and the reloader
    remote,          \* [ref, doc, file]: head of the config branch, its yaml
    pushes,          \* number of pushes made to the repository so far
    proc,            \* daemon.main(): "start", "running", "oneshot",
                     \* "exited128", "crashed", "done"
    updater,         \* LoopingCall(update_config): [running, pc, ref]
    last_load,       \* history: the outcome of the last load_config call
    ticks,           \* history: the last two update_config ticks that ended
    \* ---- listener.py / kojihelpers.py: process state
    message_queue,   \* config.message_queue: sequence of RebuildData
    awaited_repos,   \* config.awaited_repos: build tag -> list of handles
    deferreds,       \* the Deferreds made by wait_repo: [state, orch, tag]
    orchs,           \* the rebuild_batch runs scheduled so far: [target,
                     \* builds, pc, pretag, found (whether the lookup of the
                     \* target succeeded), built]
    batch_processor, \* LoopingCall(process_batch): [phase, due]
    consumer,        \* the bus consumer thread inside process_message
    \* ---- the build systems (environment)
    upstream_extra,  \* upstream tag -> its extra["downstream_sidetag"]
    nsidetags,       \* side-tags the destination build system has created
    \* ---- history
    calls,           \* the state-changing calls issued, in order
    msgs,            \* [tag, done]: tagging / repo.done messages consumed
    last_msg,        \* the last message process_message handled that was
                     \* not a repo.done one
    gap,             \* time since the last admission, capped at batch_timer
    admits,          \* per admitted event: [gap, flushes, main] at admission
    flushes,         \* the non-empty drains of process_batch, as id lists
    side_targets,    \* upstream side-tag -> the targets create_side_tag gave
    oneshot_rds,     \* the list oneshot() handed to build_components
    \* ---- config.split_scmurl / split_module applied to a drawn text
    arg,             \* the text passed
    applied,         \* [fn, result]: the last application and what it gave
    \* ---- kojihelpers.get_buildsys: the function attributes and the clock
    sessions,        \* role -> [has, session, start]: get_buildsys.<role>
                     \* and get_buildsys.<role>_session_start_time
    clock,           \* datetime.datetime.now(), in seconds
    nsessions,       \* koji.ClientSession objects constructed so far
    last_get         \* history: the last get_buildsys call: [which,
                     \* force_login, client_ok, login_ok, pre (the cache
                     \* before it), at (the clock), result]

cfgvars == <<main, comps, config_ref, retry, retries_attr, dry_run,
             distrogitsync, gitsync_up,
             remote, pushes, proc, updater, last_load, ticks>>

pipevars == <<message_queue, awaited_repos, deferreds, orchs,
              batch_processor, consumer, upstream_extra, nsidetags,
              calls, msgs, last_msg, gap, admits, flushes, side_targets,
              oneshot_rds>>

libvars == <<arg, applied, sessions, clock, nsessions, last_get>>

vars == <<cfgvars, pipevars, libvars>>

\* None where the code holds a hash or another atomic value.
None == "None"
\* None where the code holds a text (a character sequence); formatting it
\* into an f-string gives the text "None", as in Python.
NoneText == <<"None">>
\* config.main / config.comps before the first successful load (None).
NoConfig == [loaded |-> FALSE]

(***************************************************************************)
(* Python string operations on character sequences.                        *)
(***************************************************************************)
StartsWith(s, p) == Len(p) <= Len(s) /\ SubSeq(s, 1, Len(p)) = p

EndsWith(s, p) ==
    Len(p) <= Len(s) /\ SubSeq(s, Len(s) - Len(p) + 1, Len(s)) = p

\* str.replace(old, new): every non-overlapping occurrence, left to right.
RECURSIVE Replace(_, _, _)
Replace(s, old, new) ==
    IF Len(s) = 0 THEN <<>>
    ELSE IF StartsWith(s, old)
         THEN new \o Replace(SubSeq(s, Len(old) + 1, Len(s)), old, new)
         ELSE <<Head(s)>> \o Replace(Tail(s), old, new)

\* The text of a character sequence, as a TLA+ string.
RECURSIVE Join(_)
Join(s) == IF Len(s) = 0 THEN "" ELSE Head(s) \o Join(Tail(s))

\* Index of the first occurrence of character c in s, 0 when there is none.
RECURSIVE Find(_, _)
Find(s, c) ==
    IF Len(s) = 0 THEN 0
    ELSE IF Head(s) = c THEN 1
    ELSE LET r == Find(Tail(s), c) IN IF r = 0 THEN 0 ELSE r + 1

\* str.split(sep): the list of fields between every occurrence of sep.
RECURSIVE Split(_, _)
Split(s, c) ==
    LET i == Find(s, c) IN
    IF i = 0 THEN <<s>>
    ELSE <<SubSeq(s, 1, i - 1)>> \o Split(SubSeq(s, i + 1, Len(s)), c)

\* str.split(sep, 1): at most one split.
Split1(s, c) ==
    LET i == Find(s, c) IN
    IF i = 0 THEN <<s>>
    ELSE <<SubSeq(s, 1, i - 1), SubSeq(s, i + 1, Len(s))>>

\* str.rsplit(sep, 1): at most one split, at the last occurrence.
RSplit1(s, c) ==
    IF Find(s, c) = 0 THEN <<s>>
    ELSE LET i == CHOOSE j \in 1..Len(s) :
                     s[j] = c /\ \A k \in (j + 1)..Len(s) : s[k] # c
         IN  <<SubSeq(s, 1, i - 1), SubSeq(s, i + 1, Len(s))>>

\* A split at the last '#' instead of the first, which
\* C26_SplitScmurlAmended rules out.
split_scmurl_rsplit(url) ==
    LET scm    == RSplit1(url, "#")
        nscomp == Split(scm[1], "/")
    IN  [link |-> scm[1],
         ref  |-> IF Len(scm) >= 2 THEN scm[2] ELSE NoneText,
         ns   |-> IF Len(nscomp) >= 2 THEN nscomp[Len(nscomp) - 1] ELSE NoneText,
         comp |-> nscomp[Len(nscomp)]]

\* config.py 78-97.
split_scmurl(url) ==
    LET scm    == Split1(url, "#")
        nscomp == Split(scm[1], "/")
    IN  [link |-> scm[1],
         ref  |-> IF Len(scm) >= 2 THEN scm[2] ELSE NoneText,
         ns   |-> IF Len(nscomp) >= 2 THEN nscomp[Len(nscomp) - 1] ELSE NoneText,
         comp |-> nscomp[Len(nscomp)]]

\* A split that takes an empty second field as the stream, which
\* C27_SplitModuleDefault rules out.
split_module_no_default(comp) ==
    LET ms == Split(comp, ":")
    IN  [name   |-> ms[1],
         stream |-> IF Len(ms) > 1 THEN ms[2] ELSE <<"m","a","s","t","e","r">>]

\* config.py 100-112.
split_module(comp) ==
    LET ms == Split(comp, ":")
    IN  [name   |-> ms[1],
         stream |-> IF Len(ms) > 1 /\ ms[2] # <<>>
                    THEN ms[2] ELSE <<"m","a","s","t","e","r">>]

(***************************************************************************)
(* The contents of distrobaker.yaml.  A document is                        *)
(*   present    the keys of the configuration block that exist, as dotted  *)
(*              paths, plus "configuration" and "components" themselves    *)
(*   trigger, strict, exclude, autopackagelist, build, profile, defaults   *)
(*              the values of the keys the program reads                   *)
(*   components ns -> (name -> explicit overrides), where ns may be absent *)
(***************************************************************************)
Sides == {"source", "destination"}
CacheKeys == {"url", "cgi", "path"}
Namespaces == {"rpms", "modules"}
DefaultKinds == {"cache", "rpms", "modules"}

Has(doc, k) == k \in doc.present

\* config.py 266-301: one iteration of `for k in ("source", "destination")`
\* runs to its end (no `return None`).
SideLoaded(doc, k) ==
    /\ Has(doc, k)
    /\ Has(doc, k \o ".scm")
    /\ Has(doc, k \o ".cache")
    /\ \A kc \in CacheKeys : Has(doc, k \o ".cache." \o kc)
    /\ Has(doc, k \o ".profile")
    /\ Has(doc, k \o ".mbs")

\* config.py 302-311: a missing trigger.rpms or trigger.modules is logged
\* and the load goes on; only a missing trigger block returns None.
TriggerLoaded(doc) == Has(doc, "trigger")

\* config.py 312-329
BuildLoaded(doc) ==
    /\ Has(doc, "build")
    /\ \A k \in {"prefix", "target", "platform"} : Has(doc, "build." \o k)

\* config.py 330-340
GitLoaded(doc) ==
    /\ Has(doc, "git")
    /\ \A k \in {"author", "email", "message"} : Has(doc, "git." \o k)

\* config.py 341-377
ControlLoaded(doc) ==
    /\ Has(doc, "control")
    /\ \A k \in {"build", "merge", "strict"} : Has(doc, "control." \o k)

\* config.py 378-401: a missing defaults.<dk>.<dkk> is logged and the load
\* goes on; a missing defaults block or defaults.<dk> returns None.
DefaultsLoaded(doc) ==
    /\ Has(doc, "defaults")
    /\ \A dk \in DefaultKinds : Has(doc, "defaults." \o dk)

\* config.py 264-404: the validation pass reaches line 405.
Validated(doc) ==
    /\ Has(doc, "configuration")
    /\ \A k \in Sides : SideLoaded(doc, k)
    /\ TriggerLoaded(doc)
    /\ BuildLoaded(doc)
    /\ GitLoaded(doc)
    /\ ControlLoaded(doc)
    /\ DefaultsLoaded(doc)

\* Every key spec section 3 calls mandatory (build.scratch has a default).
RequiredKeys ==
    {"source", "destination", "trigger", "build", "git", "control", "defaults"}
    \cup {s \o "." \o k : s \in Sides, k \in {"scm", "cache", "profile", "mbs"}}
    \cup {s \o ".cache." \o kc : s \in Sides, kc \in CacheKeys}
    \cup {"trigger." \o k : k \in Namespaces}
    \cup {"build." \o k : k \in {"prefix", "target", "platform"}}
    \cup {"git." \o k : k \in {"author", "email", "message"}}
    \cup {"control." \o k : k \in {"build", "merge", "strict"}}
    \cup {"defaults." \o dk : dk \in DefaultKinds}
    \cup {"defaults." \o dk \o "." \o dkk : dk \in DefaultKinds, dkk \in Sides}

AllKeys == {"configuration", "components"} \cup RequiredKeys

\* config.py 263-401: the dictionary n built from a validated document.
\* keys: the required keys n holds; a key the document lacks is absent
\* from n as well, and its value below is never stored.
NewMain(doc) ==
    [loaded      |-> TRUE,
     keys        |-> RequiredKeys \cap doc.present,
     trigger     |-> doc.trigger,
     source      |-> [profile |-> doc.profile.source],
     destination |-> [profile |-> doc.profile.destination],
     build       |-> doc.build,
     control     |-> [strict          |-> doc.strict,
                      autopackagelist |-> doc.autopackagelist,
                      exclude         |-> doc.exclude],
     defaults    |-> doc.defaults]

\* A template with the placeholders %(component)s and %(stream)s is a
\* sequence of pieces; `template % {"component": c, "stream": s}`.
RECURSIVE Fmt(_, _, _)
Fmt(t, c, s) ==
    IF Len(t) = 0 THEN ""
    ELSE (IF Head(t) = "%(component)s" THEN c
          ELSE IF Head(t) = "%(stream)s" THEN s
          ELSE Head(t)) \o Fmt(Tail(t), c, s)

\* Routes that are the instantiated defaults whatever the component's entry
\* gives, which C28_RoutesFromDefaults rules out.
Route_defaults_only(n, k, p, ov) ==
    LET cname == IF k = "modules" THEN Join(split_module(p).name) ELSE Join(p)
        sname == IF k = "modules" THEN Join(split_module(p).stream) ELSE ""
    IN  [source      |-> Fmt(n.defaults[k].source, cname, sname),
         destination |-> Fmt(n.defaults[k].destination, cname, sname),
         cache       |->
            [source      |-> Fmt(n.defaults.cache.source, cname, sname),
             destination |-> Fmt(n.defaults.cache.destination, cname, sname)]]

\* config.py 429-458: the route of component p of namespace k; ov is the
\* component's entry of the components block (its explicit fields).
Route(n, k, p, ov) ==
    LET cname == IF k = "modules" THEN Join(split_module(p).name) ELSE Join(p)
        sname == IF k = "modules" THEN Join(split_module(p).stream) ELSE ""
        Pick(field, dflt) == IF field \in DOMAIN ov THEN ov[field] ELSE dflt
    IN  [source      |-> Pick("source", Fmt(n.defaults[k].source, cname, sname)),
         destination |-> Pick("destination",
                              Fmt(n.defaults[k].destination, cname, sname)),
         cache       |->
            [source      |-> Pick("cache.source",
                                  Fmt(n.defaults.cache.source, cname, sname)),
             destination |-> Pick("cache.destination",
                                  Fmt(n.defaults.cache.destination, cname, sname))]]

\* config.py 435-447 read n["defaults"][k][...] and n["defaults"]["cache"][...]
\* for a component of namespace k: a KeyError when the key was not stored.
RouteKeysPresent(n, k) ==
    \A dkk \in Sides : /\ ("defaults." \o k \o "." \o dkk) \in n.keys
                       /\ ("defaults.cache." \o dkk) \in n.keys

\* config.py 405-463: nc, from the block cnf (ns -> name -> overrides).
NewComps(n, cnf) ==
    [k \in Namespaces |->
        IF k \in DOMAIN cnf
        THEN [p \in DOMAIN cnf[k] |-> Route(n, k, p, cnf[k][p])]
        ELSE <<>>]

\* config.py 212-481.  cloned: whether one of the `retry` attempts cloned the
\* repository; file: "ok", "absent" or "unparsable"; pkgs: what the Content
\* Resolver returns, [ok, names] (ok FALSE when the request raises).
\* Result: [status, main, comps], status "ok" (returns main, comps),
\* "none" (returns None) or "raise" (an exception leaves the function).
load_config(doc, cloned, file, pkgs) ==
    LET fail(st) == [status |-> st, main |-> NoConfig, comps |-> NoConfig]
        n == NewMain(doc)
        useResolver == ~Has(doc, "components")
        cnf == IF Has(doc, "components") THEN doc.components
               ELSE [rpms |-> [p \in pkgs.names |-> <<>>]]
    IN  IF ~cloned THEN fail("none")
        ELSE IF file # "ok" THEN fail("none")
        ELSE IF ~Validated(doc) THEN fail("none")
        \* line 409: "autopackagelist" in n["control"] always holds (350);
        \* line 413: `in None` raises TypeError
        ELSE IF useResolver /\ n.control.autopackagelist = None THEN fail("raise")
        ELSE IF useResolver /\ ~pkgs.ok THEN fail("raise")
        ELSE IF \E k \in DOMAIN cnf :
                    DOMAIN cnf[k] # {} /\ ~RouteKeysPresent(n, k)
             THEN fail("raise")
        ELSE [status |-> "ok", main |-> n, comps |-> NewComps(n, cnf)]

(***************************************************************************)
(* Texts and configuration documents used as inputs.                       *)
(***************************************************************************)
f42 == <<"f","4","2">>
f42_gate == f42 \o <<"-","g","a","t","e">>
f42_build == f42 \o <<"-","b","u","i","l","d">>
f42_modules_gate == f42 \o <<"-","m","o","d","-","g","a","t","e">>
f42_build_stack_gate == f42_build \o <<"-","s","t","a","c","k","-","g","a","t","e">>
f42_build_side_1 == f42_build \o <<"-","s","i","d","e","-","1">>
f41_gate == <<"f","4","1","-","g","a","t","e">>
bash == <<"b","a","s","h">>
zsh == <<"z","s","h">>
nodejs == <<"n","o","d","e","j","s">>
nodejs_18 == nodejs \o <<":","1","8">>
pkgs_prefix == <<"g","i","t","+","p","k","g","s">>
\* The value of --distrogitsync-endpoint.
endpoint == <<"h","t","t","p",":","/","/","d","g","s">>

\* A complete document: every key present, with a components block.
\* sameprof: source.profile == destination.profile.
BaseDoc(strict, excl, sameprof) ==
    [present         |-> AllKeys,
     trigger         |-> [rpms |-> f42_gate, modules |-> f42_modules_gate],
     strict          |-> strict,
     exclude         |-> [rpms |-> excl, modules |-> {}],
     autopackagelist |-> None,
     build           |-> [prefix |-> pkgs_prefix, target |-> f42,
                          scratch |-> FALSE],
     profile         |-> [source      |-> "koji",
                          destination |-> IF sameprof THEN "koji" ELSE "brew"],
     defaults        |->
        [cache   |-> [source      |-> <<"%(component)s">>,
                      destination |-> <<"%(component)s">>],
         rpms    |-> [source      |-> <<"%(component)s", ".git#rawhide">>,
                      destination |-> <<"%(component)s", ".git#eln">>],
         modules |-> [source      |-> <<"%(component)s", ".git#", "%(stream)s">>,
                      destination |-> <<"%(component)s", "#stream-", "%(stream)s">>]],
     components      |->
        [rpms    |-> (bash :> [source |-> "bash.git#f42"]),
         modules |-> (nodejs_18 :> <<>>)]]

\* Documents of the configuration repository in the reloader's runs: the
\* complete document, the documents that lack one key, a strict one, one
\* without a components block and one with an automatic package list.
Docs ==
    {BaseDoc(FALSE, {}, TRUE), BaseDoc(TRUE, {bash}, TRUE)}
    \cup {[BaseDoc(FALSE, {}, TRUE) EXCEPT !.present = @ \ {k}] : k \in AllKeys}
    \cup {[BaseDoc(FALSE, {}, TRUE) EXCEPT !.present = @ \ {"components"},
                                           !.autopackagelist = "eln"]}

Refs == {"h1", "h2"}
Files == {"ok", "absent", "unparsable"}
\* What the Content Resolver may answer.
Packages == {[ok |-> TRUE, names |-> {bash, zsh}], [ok |-> FALSE, names |-> {}]}

\* The states of the configuration repository: a branch head with a
\* readable document, with a missing or unparsable distrobaker.yaml, or no
\* such branch at all (git ls-remote prints nothing, a checkout fails).
GoodDoc == BaseDoc(FALSE, {}, TRUE)
RemoteStates ==
    [ref : Refs, doc : Docs, file : {"ok"}]
    \cup [ref : Refs, doc : {GoodDoc}, file : Files]
    \cup [ref : {None}, doc : {GoodDoc}, file : {"ok"}]

\* Whether load_config asks the Content Resolver for the package list.
UsesResolver(doc) == ~Has(doc, "components") /\ doc.autopackagelist # None
PackagesFor(doc) ==
    IF UsesResolver(doc) THEN Packages ELSE {[ok |-> TRUE, names |-> {}]}

MaxPushes == 1
MaxCloneFails == 3

(***************************************************************************)
(* The configuration store, daemon.main() and the reloader.                *)
(***************************************************************************)
NoLoad == [status |-> "never", caller |-> "", attempts |-> 0,
           ref |-> None, doc |-> GoodDoc, file |-> "ok", cloned |-> TRUE,
           pre |-> <<NoConfig, NoConfig, None>>]

InitLoader ==
    /\ main = NoConfig
    /\ comps = NoConfig
    /\ config_ref = None
    /\ retry = 3
    /\ retries_attr = "function"
    /\ dry_run = FALSE
    /\ distrogitsync = NoneText
    /\ gitsync_up = TRUE
    /\ remote \in RemoteStates
    /\ pushes = 0
    /\ proc = "start"
    /\ updater = [running |-> FALSE, pc |-> "idle", ref |-> None]
    /\ last_load = NoLoad
    /\ ticks = <<>>

\* A push to the configuration repository (or the removal of the branch).
Push ==
    /\ UNCHANGED <<pipevars, libvars>>
    /\ pushes < MaxPushes
    /\ pushes' = pushes + 1
    /\ \E r \in RemoteStates : remote' = r
    /\ UNCHANGED <<main, comps, config_ref, retry, retries_attr, dry_run,
                   distrogitsync, gitsync_up,
                   proc, updater, last_load, ticks>>

\* config.py 229-246: the clone loop makes at most `retry` attempts and stops
\* at the first that succeeds; fails is the number of attempts that would
\* fail before one succeeds.
CloneAttempts(fails) == IF fails < retry THEN fails + 1 ELSE retry
Cloned(fails) == fails < retry

\* One call of load_config(): the globals it assigns (479-480) and its record.
LoadCall(caller, fails, pkgs, res) ==
    /\ res = load_config(remote.doc, Cloned(fails), remote.file, pkgs)
    /\ last_load' = [status |-> res.status, caller |-> caller,
                     attempts |-> CloneAttempts(fails),
                     ref |-> remote.ref, doc |-> remote.doc, file |-> remote.file,
                     cloned |-> Cloned(fails),
                     pre |-> <<main, comps, config_ref>>]
    /\ IF res.status = "ok"
       THEN main' = res.main /\ comps' = res.comps
       ELSE UNCHANGED <<main, comps>>

\* daemon.py 168-198: main().  args: the -r and -d options.
Startup ==
    /\ UNCHANGED <<pipevars, libvars>>
    /\ proc = "start"
    /\ \E retry_arg \in {1, 3}, fails \in 0..MaxCloneFails, pkgs \in PackagesFor(remote.doc) :
          /\ remote.ref = None => ~Cloned(fails)
          /\ retries_attr' = retry_arg          \* line 175: config.retries = ...
          /\ \E res \in {load_config(remote.doc, Cloned(fails), remote.file, pkgs)} :
                /\ LoadCall("main", fails, pkgs, res)
                /\ proc' = CASE res.status = "ok"   -> "running"
                             [] res.status = "none" -> "exited128"
                             [] OTHER               -> "crashed"
                /\ updater' = [running |-> res.status = "ok",
                               pc |-> "idle", ref |-> None]
    /\ UNCHANGED <<config_ref, retry, dry_run,
                   distrogitsync, gitsync_up, remote, pushes, ticks>>

\* config.py 115-138: get_config_ref on the repository rem.  git ls-remote
\* prints nothing when no head matches the ref.
get_config_ref_unchecked(rem) == [raised |-> None, ref |-> rem.ref]
get_config_ref(rem) ==
    IF rem.ref = None
    THEN [raised |-> "UnknownRefError", ref |-> None]
    ELSE [raised |-> None, ref |-> rem.ref]

\* config.py 159: the condition under which update_config returns early.
SkipsUpdate_RefOnly(ref, cref, m) == ref = cref
SkipsUpdate(ref, cref, m) ==
    ref = cref /\ m.control.autopackagelist = None

\* The record of a tick that has ended: the ref get_config_ref observed and
\* what it raised, whether autopackagelist was unset, whether load_config
\* was called, and main, comps, config_ref before and after the tick.
TickRecord(g, loaded, post) ==
    [ref |-> g.ref, raised |-> g.raised,
     unset |-> main.control.autopackagelist = None,
     loaded |-> loaded,
     pre |-> <<main, comps, config_ref>>, post |-> post]

Last2(log, rec) ==
    IF Len(log) < 2 THEN Append(log, rec) ELSE <<log[2], rec>>

\* config.py 149-155: the first half of an update_config tick, up to the
\* result of get_config_ref.  An UnknownRefError becomes a ConfigError that
\* leaves update_config; a LoopingCall whose function fails stops.
UpdateGetRef ==
    /\ UNCHANGED <<pipevars, libvars>>
    /\ proc = "running"
    /\ updater.running
    /\ updater.pc = "idle"
    /\ LET g == get_config_ref(remote) IN
       IF g.raised # None
       THEN /\ updater' = [updater EXCEPT !.running = FALSE]
            /\ ticks' = Last2(ticks, TickRecord(g, FALSE,
                                                <<main, comps, config_ref>>))
       ELSE /\ updater' = [updater EXCEPT !.pc = "got_ref", !.ref = g.ref]
            /\ UNCHANGED ticks
    /\ UNCHANGED <<main, comps, config_ref, retry, retries_attr, dry_run,
                   distrogitsync, gitsync_up,
                   remote, pushes, proc, last_load>>

\* config.py 159-163: the tick skips.
UpdateSkip ==
    /\ UNCHANGED <<pipevars, libvars>>
    /\ updater.pc = "got_ref"
    /\ SkipsUpdate(updater.ref, config_ref, main)
    /\ updater' = [updater EXCEPT !.pc = "idle"]
    /\ ticks' = Last2(ticks, TickRecord([raised |-> None, ref |-> updater.ref],
                                        FALSE, <<main, comps, config_ref>>))
    /\ UNCHANGED <<main, comps, config_ref, retry, retries_attr, dry_run,
                   distrogitsync, gitsync_up,
                   remote, pushes, proc, last_load>>

\* config.py 165-166: `main, comps = yield load_config()`, then
\* `config_ref = ref`.  Unpacking None raises TypeError before anything is
\* assigned; that, or an exception from load_config, stops the LoopingCall.
UpdateLoad ==
    /\ UNCHANGED <<pipevars, libvars>>
    /\ updater.pc = "got_ref"
    /\ ~SkipsUpdate(updater.ref, config_ref, main)
    /\ \E fails \in 0..MaxCloneFails, pkgs \in PackagesFor(remote.doc) :
          /\ remote.ref = None => ~Cloned(fails)
          /\ \E res \in {load_config(remote.doc, Cloned(fails), remote.file, pkgs)} :
                /\ LoadCall("update_config", fails, pkgs, res)
                /\ IF res.status = "ok"
                   THEN /\ config_ref' = updater.ref
                        /\ updater' = [updater EXCEPT !.pc = "idle"]
                   ELSE /\ UNCHANGED config_ref
                        /\ updater' = [updater EXCEPT !.pc = "idle",
                                                      !.running = FALSE]
    /\ ticks' = Last2(ticks, TickRecord([raised |-> None, ref |-> updater.ref],
                                        TRUE, <<main', comps', config_ref'>>))
    /\ UNCHANGED <<retry, retries_attr, dry_run,
                   distrogitsync, gitsync_up, remote, pushes, proc>>

(***************************************************************************)
(* The message classifier: listener.process_message for tagging messages.  *)
(***************************************************************************)
dash_gate == <<"-","g","a","t","e">>
dash_build == <<"-","b","u","i","l","d">>
dash_stack_gate == <<"-","s","t","a","c","k","-","g","a","t","e">>
dash_side == <<"-","s","i","d","e">>
buildsys_tag == <<"b","u","i","l","d","s","y","s",".","t","a","g">>
buildsys_repo_done ==
    <<"b","u","i","l","d","s","y","s",".","r","e","p","o",".","d","o","n","e">>
buildsys_untag == <<"b","u","i","l","d","s","y","s",".","u","n","t","a","g">>
org == <<"o","r","g",".">>

\* listener.py 58-60
upstream_build_tag(m) == Replace(m.trigger.rpms, dash_gate, dash_build)

\* listener.py 66-67 and 94-95: the side-tag pattern.
IsSideTag(m, tag) ==
    \/ /\ StartsWith(tag, upstream_build_tag(m))
       /\ EndsWith(tag, dash_stack_gate)
    \/ StartsWith(tag, upstream_build_tag(m) \o dash_side)

\* A classification that takes every tag that is not the modules trigger
\* for an rpms one, which C30_IgnoredMessagesAmended rules out.
Classify_any(m, tag) ==
    IF tag = m.trigger.modules THEN "modules" ELSE "rpms"

\* listener.py 62-75: the namespace of a tagging event, "ignore" when the
\* tag is not watched.
Classify(m, tag) ==
    IF tag = m.trigger.rpms THEN "rpms"
    ELSE IF IsSideTag(m, tag) THEN "rpms"
    ELSE IF tag = m.trigger.modules THEN "modules"
    ELSE "ignore"

\* A strict gate that drops nothing, which C5_StrictGating rules out.
StrictDrops_Off(m, c, ns, comp) == FALSE

\* listener.py 78-80
StrictDrops(m, c, ns, comp) == m.control.strict /\ comp \notin DOMAIN c[ns]

\* An exclude gate that drops nothing, which C6_ExcludeDominance rules out.
ExcludeDrops_Off(m, ns, comp) == FALSE

\* listener.py 82-84
ExcludeDrops(m, ns, comp) == comp \in m.control.exclude[ns]

\* listener.py 87-99: which enrichment branch runs after the gates.
Branch(m, tag) ==
    IF tag = m.trigger.modules THEN "module"
    ELSE IF IsSideTag(m, tag) THEN "sidetag"
    ELSE "plain"

\* f"{comp}-{version}-{release}" (listener.py 89 and 141)
Nvr(comp, version, release) ==
    comp \o <<"-">> \o version \o <<"-">> \o release

\* The name the destination build system gives its n-th side-tag
\* (createSideTag(basetag, suffix="stack-gate")["name"]).
Digit(n) == <<"0","1","2","3","4","5","6","7","8","9">>[n + 1]
SideTagName(basetag, n) ==
    basetag \o dash_side \o <<"-", Digit(n)>> \o dash_stack_gate

\* getBuildTarget(target)["build_tag_name"] in the destination build system:
\* the build tag of the configured target, and a side-tag's own name for the
\* target that comes with the side-tag.
\* getBuildTarget(None) looks up every target and answers, if at all, with
\* the only one there is.
BuildTagOf(target) == IF target \in {f42, NoneText} THEN f42_build ELSE target

\* A create_side_tag that does not look at the recorded mapping (no lines
\* 340-343), which C9_SideTagMemo rules out.
create_side_tag_nomemo(dry, downstream_target, upstream_sidetag, extra, n, found) ==
    LET downstream_tag == BuildTagOf(downstream_target)
        created == SideTagName(downstream_tag, n + 1)
        dryname == downstream_tag
                   \o <<"-","d","r","y","-","r","u","n","-","m","o","d","e">>
                   \o dash_stack_gate
    IN  IF ~found
        THEN [status |-> "raise", target |-> NoneText,
              calls |-> <<>>, extra |-> extra, created |-> n]
        ELSE IF ~dry
        THEN [status |-> "ok", target |-> created,
              calls |-> << [op |-> "createSideTag", basetag |-> downstream_tag,
                            upstream |-> upstream_sidetag],
                           [op |-> "editTag2", tag |-> upstream_sidetag,
                            downstream_sidetag |-> created] >>,
              extra |-> [extra EXCEPT ![upstream_sidetag] = created],
              created |-> n + 1]
        ELSE [status |-> "ok", target |-> dryname,
              calls |-> <<>>, extra |-> extra, created |-> n]

\* kojihelpers.py 323-364: create_side_tag(downstream_target, upstream_sidetag).
\* found: whether getBuildTarget knows downstream_target.
\* Result: [status, target, calls, extra, created]; status "raise" when
\* `downstream_target["build_tag_name"]` is taken of None.
create_side_tag(dry, downstream_target, upstream_sidetag, extra, n, found) ==
    LET downstream_tag == BuildTagOf(downstream_target)
        created == SideTagName(downstream_tag, n + 1)
        dryname == downstream_tag
                   \o <<"-","d","r","y","-","r","u","n","-","m","o","d","e">>
                   \o dash_stack_gate
    IN  IF extra[upstream_sidetag] # NoneText
        THEN [status |-> "ok", target |-> extra[upstream_sidetag],
              calls |-> <<>>, extra |-> extra, created |-> n]
        ELSE IF ~found
        THEN [status |-> "raise", target |-> NoneText,
              calls |-> <<>>, extra |-> extra, created |-> n]
        ELSE IF ~dry
        THEN [status |-> "ok", target |-> created,
              calls |-> << [op |-> "createSideTag", basetag |-> downstream_tag,
                            upstream |-> upstream_sidetag],
                           [op |-> "editTag2", tag |-> upstream_sidetag,
                            downstream_sidetag |-> created] >>,
              extra |-> [extra EXCEPT ![upstream_sidetag] = created],
              created |-> n + 1]
        ELSE [status |-> "ok", target |-> dryname,
              calls |-> <<>>, extra |-> extra, created |-> n]

\* The values the environment can give one tagging message.
EventTags == {f42_gate, f42_modules_gate, f42_build_stack_gate, f41_gate}
EventNames == {bash, zsh}
v52 == <<"5",".","2">>
r1 == <<"1">>
src_prefix == <<"s","r","c">>
\* The source URL of the upstream build of comp in namespace ns.
UpstreamScmurl(ns, comp) ==
    src_prefix \o <<"/">> \o ns \o <<"/">> \o comp \o <<"#","a","b","c">>
NsText(ns) == IF ns = "rpms" THEN <<"r","p","m","s">>
              ELSE <<"m","o","d","u","l","e","s">>
\* get_scmurl (kojihelpers.py 277-295): the source of the build, None after a
\* koji.GenericError, or another exception that leaves the function.
ScmOutcomes == {"source", "None", "raise"}
\* get_build_info + get_ref_overrides (kojihelpers.py 86-149): the rpm refs
\* of the modulemd as (name, ref) pairs, or an exception (no build info, no
\* modulemd).
icu == <<"i","c","u">>
ModOutcomes == {[ok |-> TRUE, refs |-> << <<icu, r1>> >>],
                [ok |-> FALSE, refs |-> <<>>]}
\* No module lookup is made.
NoMod == [ok |-> TRUE, refs |-> <<>>]

NoRd == [ns |-> "", comp |-> <<>>, version |-> <<>>, release |-> <<>>,
         scmurl |-> NoneText, downstream_target |-> NoneText,
         ref_overrides |-> <<>>, id |-> 0]

\* listener.py 51-108: process_message on a tagging message, up to the
\* RebuildData it posts to the event loop.  m, c: config.main, config.comps.
\* Result: admit (whether an rd is posted), rd, rpcs (the build-system calls
\* made), sidetag (the result of create_side_tag, when it ran).
classify_message(m, c, dry, msg, scm, mod, found, extra, n, id) ==
    LET ns     == Classify(m, msg.tag)
        comp   == msg.name
        branch == Branch(m, msg.tag)
        st     == create_side_tag(dry, m.build.target, msg.tag, extra, n, found)
        nost   == [status |-> "skip", target |-> NoneText, calls |-> <<>>,
                   extra |-> extra, created |-> n]
        drop(rpcs, sidetag) ==
            [admit |-> FALSE, rd |-> NoRd, rpcs |-> rpcs, sidetag |-> sidetag]
        rd == [ns |-> ns, comp |-> comp, version |-> msg.version,
               release |-> msg.release,
               scmurl |-> IF scm = "source"
                          THEN UpstreamScmurl(NsText(ns), comp) ELSE NoneText,
               downstream_target |-> IF branch = "sidetag"
                                     THEN st.target ELSE NoneText,
               ref_overrides |-> IF branch = "module" THEN mod.refs ELSE <<>>,
               id |-> id]
        pre == IF branch = "module" THEN {"getBuild"}
               ELSE IF branch = "sidetag"
               THEN {"getTag"}
                    \cup (IF extra[msg.tag] = NoneText
                          THEN {"getBuildTarget"} ELSE {})
                    \cup {st.calls[i].op : i \in 1..Len(st.calls)}
               ELSE {}
        side == IF branch = "sidetag" THEN st ELSE nost
    IN  IF ns = "ignore" THEN drop({}, nost)
        ELSE IF StrictDrops(m, c, ns, comp) THEN drop({}, nost)
        ELSE IF ExcludeDrops(m, ns, comp) THEN drop({}, nost)
        ELSE IF branch = "module" /\ ~mod.ok THEN drop(pre, nost)
        ELSE IF branch = "sidetag" /\ st.status = "raise" THEN drop(pre, side)
        ELSE IF scm = "raise" THEN drop(pre \cup {"getBuild"}, side)
        ELSE [admit |-> TRUE, rd |-> rd, rpcs |-> pre \cup {"getBuild"},
              sidetag |-> side]

\* task.LoopingCall (Twisted) as daemon.py 193-194 and listener.py 107 use
\* it: phase is the time since starttime modulo the interval, due whether
\* the scheduled call has come due and not run yet.
batch_timer == 2
LoopingCall_start == [phase |-> 0, due |-> FALSE]
\* A reset that leaves the schedule as it is, which C3_BatchingAmended
\* rules out.
LoopingCall_noreset(lc) == lc
LoopingCall_reset(lc) == [phase |-> 0, due |-> FALSE]
LoopingCall_tick(lc) ==
    [phase |-> (lc.phase + 1) % batch_timer,
     due   |-> lc.due \/ (lc.phase + 1) % batch_timer = 0]
LoopingCall_called(lc) == [lc EXCEPT !.due = FALSE]

MaxMsgs == 2
MaxRepoDone == 2

Min(a, b) == IF a < b THEN a ELSE b

\* listener.py 29-108 on a message whose topic ends with buildsys.tag.
ProcessTagMessage ==
    /\ UNCHANGED <<cfgvars, libvars>>
    /\ proc = "running"
    /\ consumer.pc = "idle"
    /\ msgs.tag < MaxMsgs
    /\ \E tag \in EventTags, name \in EventNames, scm \in ScmOutcomes,
          mod \in ModOutcomes \cup {NoMod}, found \in BOOLEAN :
          LET msg == [topic |-> org \o buildsys_tag, name |-> name,
                      version |-> v52, release |-> r1, tag |-> tag]
              r == classify_message(main, comps, dry_run, msg, scm, mod, found,
                                    upstream_extra, nsidetags, Len(admits) + 1)
          IN  /\ ~EndsWith(msg.topic, buildsys_repo_done)
              /\ EndsWith(msg.topic, buildsys_tag)
              \* inputs that are not read do not vary
              /\ (~mod.ok \/ ~found) => scm = "source"
              /\ Branch(main, tag) # "module" => mod = NoMod
              /\ Branch(main, tag) = "module" => mod \in ModOutcomes
              /\ (Branch(main, tag) # "sidetag" \/ upstream_extra[tag] # NoneText)
                    => found
              /\ last_msg' = [topic |-> msg.topic, name |-> name, tag |-> tag,
                              ns |-> Classify(main, tag),
                              admitted |-> r.admit, rpcs |-> r.rpcs]
              /\ upstream_extra' = r.sidetag.extra
              /\ nsidetags' = r.sidetag.created
              /\ calls' = calls \o r.sidetag.calls
              /\ side_targets' =
                    IF r.sidetag.status = "ok"
                    THEN [side_targets EXCEPT ![tag] = @ \cup {r.sidetag.target}]
                    ELSE side_targets
              /\ IF r.admit
                 THEN /\ batch_processor' = LoopingCall_reset(batch_processor)
                      /\ message_queue' = Append(message_queue, r.rd)
                      /\ admits' = Append(admits, [gap |-> gap,
                                                   flushes |-> Len(flushes),
                                                   main |-> main])
                      /\ gap' = 0
                 ELSE UNCHANGED <<batch_processor, message_queue, admits, gap>>
    /\ msgs' = [msgs EXCEPT !.tag = @ + 1]
    /\ UNCHANGED <<awaited_repos, deferreds, orchs, consumer, flushes,
                   oneshot_rds>>

\* listener.py 29-49 on a message whose topic ends neither with
\* buildsys.repo.done nor with buildsys.tag: an untagging message for a
\* build in the rpms trigger tag.
ProcessOtherMessage ==
    /\ UNCHANGED <<cfgvars, libvars>>
    /\ proc = "running"
    /\ consumer.pc = "idle"
    /\ msgs.tag < MaxMsgs
    /\ LET msg == [topic |-> org \o buildsys_untag, name |-> bash,
                   version |-> v52, release |-> r1, tag |-> main.trigger.rpms]
       IN  /\ ~EndsWith(msg.topic, buildsys_repo_done)
           /\ ~EndsWith(msg.topic, buildsys_tag)
           /\ last_msg' = [topic |-> msg.topic, name |-> msg.name,
                           tag |-> msg.tag, ns |-> "ignore",
                           admitted |-> FALSE, rpcs |-> {}]
    /\ msgs' = [msgs EXCEPT !.tag = @ + 1]
    /\ UNCHANGED <<message_queue, awaited_repos, deferreds, orchs,
                   batch_processor, consumer, upstream_extra, nsidetags,
                   calls, gap, admits, flushes, side_targets, oneshot_rds>>

(***************************************************************************)
(* The rebuild orchestrator: rebuild_batch and build_components.           *)
(***************************************************************************)
\* kojihelpers.py 308-311: compset, the component and then the rpms that
\* ref_overrides names.
GitSyncCompset(ns, comp, ref_overrides) ==
    << [ns |-> ns, comp |-> comp] >>
    \o [i \in 1..Len(ref_overrides) |->
          [ns |-> "rpms", comp |-> ref_overrides[i][1]]]

\* A call_distrogitsync that does not contain a failing request: the
\* requests after the first are not made when the endpoint is down.  It is
\* what C22_GitSyncFirstAmended rules out.
call_distrogitsync_uncontained(o, ns, comp, ref_overrides) ==
    LET compset == GitSyncCompset(ns, comp, ref_overrides)
        made == IF gitsync_up THEN compset ELSE <<compset[1]>>
    IN  IF distrogitsync = NoneText THEN <<>>
        ELSE [i \in 1..Len(made) |->
                 [op |-> "gitsync", orch |-> o, ns |-> made[i].ns,
                  comp |-> made[i].comp, ok |-> gitsync_up]]

\* kojihelpers.py 307-320: the requests call_distrogitsync posts, one for
\* each element of compset when config.distrogitsync is set.  A request that
\* fails (RequestException) is logged and the loop goes on.
call_distrogitsync(o, ns, comp, ref_overrides) ==
    LET compset == GitSyncCompset(ns, comp, ref_overrides)
    IN  IF distrogitsync = NoneText THEN <<>>
        ELSE [i \in 1..Len(compset) |->
                 [op |-> "gitsync", orch |-> o, ns |-> compset[i].ns,
                  comp |-> compset[i].comp, ok |-> gitsync_up]]

\* f"{prefix}/{namespace}/{component}#{ref}" (listener.py 170)
DownstreamScmurl(prefix, ns, comp, ref) ==
    prefix \o <<"/">> \o NsText(ns) \o <<"/">> \o comp \o <<"#">> \o ref

\* listener.py 165-186: the loop of build_components over builds, for the
\* run o and the target after the substitution of line 161-162.
\* Result: [calls, ok]; ok is FALSE when an exception ends the loop
\* (split_scmurl(None) raises AttributeError).
RECURSIVE BuildLoop(_, _, _, _, _)
BuildLoop(m, dry, o, target, builds) ==
    IF Len(builds) = 0 THEN [calls |-> <<>>, ok |-> TRUE]
    ELSE LET rd == Head(builds)
             ref == split_scmurl(rd.scmurl).ref
             url == DownstreamScmurl(m.build.prefix, rd.ns, rd.comp, ref)
             mine == IF dry THEN <<>>
                     ELSE call_distrogitsync(o, rd.ns, rd.comp, rd.ref_overrides)
                          \o << [op |-> "build", orch |-> o, url |-> url,
                                 target |-> target,
                                 scratch |-> m.build.scratch, rd |-> rd] >>
             rest == BuildLoop(m, dry, o, target, Tail(builds))
         IN  IF rd.scmurl = NoneText THEN [calls |-> <<>>, ok |-> FALSE]
             ELSE [calls |-> mine \o rest.calls, ok |-> rest.ok]

\* listener.py 158-186
build_components(m, dry, o, target, builds) ==
    BuildLoop(m, dry, o,
              IF target \in {NoneText, <<>>} THEN m.build.target ELSE target,
              builds)

\* A pre-tag condition that does not look at dry_run, which
\* C23_DryRunNoEffects rules out.
PreTagApplies_AnyMode(m, dry) == m.source.profile = m.destination.profile

\* listener.py 134-138: whether rebuild_batch tags and waits.
PreTagApplies(m, dry) == ~dry /\ m.source.profile = m.destination.profile

\* listener.py 139-143: the tagBuild calls of the multicall.
TagBuildCalls(o, target, builds) ==
    [i \in 1..Len(builds) |->
        [op |-> "tagBuild", orch |-> o, target |-> target,
         nvr |-> Nvr(builds[i].comp, builds[i].version, builds[i].release),
         rd |-> builds[i]]]

\* A pre-tag step that registers the wait handle before it tags, which
\* C1_TagWaitBuild rules out.
PreTagStep_WaitFirst(o, target, builds, buildroot) ==
    << [op |-> "wait_repo", orch |-> o, tag |-> buildroot] >>
    \o TagBuildCalls(o, target, builds)

\* listener.py 139-149: what rebuild_batch does before it yields, when the
\* target's build tag is buildroot.
PreTagStep(o, target, builds, buildroot) ==
    TagBuildCalls(o, target, builds)
    \o << [op |-> "wait_repo", orch |-> o, tag |-> buildroot] >>

\* kojihelpers.py 298-304: wait_repo(tag) appends the new handle d.
wait_repo(registry, tag, d) ==
    IF tag \in DOMAIN registry
    THEN [registry EXCEPT ![tag] = Append(@, d)]
    ELSE [k \in DOMAIN registry \cup {tag} |->
             IF k = tag THEN <<d>> ELSE registry[k]]

\* listener.py 155 and what follows it in the run o: the run's record and
\* the calls after build_components(target, builds).
Finish(o, r) ==
    /\ orchs' = [orchs EXCEPT ![o].pc = IF r.ok THEN "done" ELSE "failed",
                              ![o].built = TRUE]
    /\ calls' = calls \o r.calls

\* A lookup that answers with the text None for a target it does not find,
\* which C25_LookupFailureContained rules out.
target_build_tag_lenient(found, target) ==
    [raised |-> FALSE, name |-> IF found THEN BuildTagOf(target) ELSE NoneText]

\* listener.py 145: get_target_info(target)["build_tag_name"].  found is
\* whether get_target_info returns the target's record; it returns None when
\* the build system is unavailable or the lookup raises, and indexing None
\* raises TypeError.
target_build_tag(found, target) ==
    IF found THEN [raised |-> FALSE, name |-> BuildTagOf(target)]
    ELSE [raised |-> TRUE, name |-> NoneText]

\* listener.py 129-149: rebuild_batch from its start to its first yield or
\* its end.
RebuildBatchStart ==
    /\ UNCHANGED <<cfgvars, libvars>>
    /\ \E o \in 1..Len(orchs), found \in BOOLEAN :
          /\ orchs[o].pc = "scheduled"
          /\ IF PreTagApplies(main, dry_run)
             THEN LET d == Len(deferreds) + 1
                      buildroot == target_build_tag(found, orchs[o].target)
                  IN  IF ~buildroot.raised
                      THEN /\ calls' = calls \o PreTagStep(o, orchs[o].target,
                                                           orchs[o].builds,
                                                           buildroot.name)
                           /\ deferreds' = Append(deferreds,
                                              [state |-> "pending", orch |-> o,
                                               tag |-> buildroot.name])
                           /\ awaited_repos' = wait_repo(awaited_repos,
                                                         buildroot.name, d)
                           /\ orchs' = [orchs EXCEPT ![o].pc = "waiting",
                                                     ![o].pretag = TRUE,
                                                     ![o].found = found]
                      ELSE /\ calls' = calls \o TagBuildCalls(o, orchs[o].target,
                                                              orchs[o].builds)
                           /\ orchs' = [orchs EXCEPT ![o].pc = "failed",
                                                     ![o].pretag = TRUE,
                                                     ![o].found = found]
                           /\ UNCHANGED <<deferreds, awaited_repos>>
             ELSE /\ found
                  /\ Finish(o, build_components(main, dry_run, o,
                                                orchs[o].target, orchs[o].builds))
                  /\ UNCHANGED <<deferreds, awaited_repos>>
    /\ UNCHANGED <<message_queue, batch_processor, consumer, upstream_extra,
                   nsidetags, msgs, last_msg, gap, admits, flushes,
                   side_targets, oneshot_rds>>

\* Deferred.addTimeout (kojihelpers.py 300) fails the Deferred with
\* twisted.internet.defer.TimeoutError, which is a subclass of Exception and
\* of nothing else.
WaitRepoTimeoutError == "twisted.internet.defer.TimeoutError"

\* listener.py 148-153: `except TimeoutError`.  listener.py imports
\* AlreadyCalledError and inlineCallbacks from twisted.internet.defer (line 8)
\* and nothing named TimeoutError, so the name is Python's builtin.
CaughtByRebuildBatch(exc) == exc = "builtins.TimeoutError"

\* The timeout of handle d expires on the event loop: the Deferred is
\* cancelled and the waiting rebuild_batch gets the exception at its yield.
WaitRepoTimeout ==
    /\ UNCHANGED <<cfgvars, libvars>>
    /\ \E d \in 1..Len(deferreds) :
          /\ deferreds[d].state = "pending"
          /\ deferreds' = [deferreds EXCEPT ![d].state = "timedout"]
          /\ LET o == deferreds[d].orch IN
             IF CaughtByRebuildBatch(WaitRepoTimeoutError)
             THEN Finish(o, build_components(main, dry_run, o,
                                             orchs[o].target, orchs[o].builds))
             ELSE /\ orchs' = [orchs EXCEPT ![o].pc = "failed"]
                  /\ UNCHANGED calls
    /\ UNCHANGED <<message_queue, awaited_repos, batch_processor, consumer,
                   upstream_extra, nsidetags, msgs, last_msg, gap, admits,
                   flushes, side_targets, oneshot_rds>>

(***************************************************************************)
(* The awaited-repo registry: process_message on a repo.done message runs  *)
(* on the bus consumer's thread, wait_repo on the event loop's; the steps  *)
(* of the dispatch interleave with the actions of the event loop.          *)
(***************************************************************************)
RepoTags == {f42_build, SideTagName(f42_build, 1)}

\* The handles wait_repo(tag) has returned that are neither fulfilled nor
\* timed out.
Pending(tag) ==
    {d \in 1..Len(deferreds) :
        deferreds[d].tag = tag /\ deferreds[d].state = "pending"}

\* listener.py 33-36: the message arrives; the loop over the list starts
\* when the tag is a key of the registry.
RepoDoneBegin ==
    /\ UNCHANGED <<cfgvars, libvars>>
    /\ proc = "running"
    /\ consumer.pc = "idle"
    /\ msgs.done < MaxRepoDone
    /\ \E tag \in RepoTags :
          LET topic == org \o buildsys_repo_done IN
          /\ EndsWith(topic, buildsys_repo_done)
          \* a message for a tag nobody waits for changes nothing
          /\ tag \in DOMAIN awaited_repos \/ Pending(tag) # {}
          /\ consumer' = [pc |-> IF tag \in DOMAIN awaited_repos
                                  THEN "iter" ELSE "idle",
                           tag |-> tag, idx |-> 0,
                           before |-> Pending(tag)]
    /\ msgs' = [msgs EXCEPT !.done = @ + 1]
    /\ UNCHANGED <<message_queue, awaited_repos, deferreds, orchs,
                   batch_processor, upstream_extra, nsidetags, calls,
                   last_msg, gap, admits, flushes, side_targets, oneshot_rds>>

\* Deferred.callback(None) (Twisted) on the handle h, as listener.py 39
\* calls it: a pending handle is fulfilled and the generator that yielded it
\* resumes; a handle that addTimeout cancelled passes the call over in
\* silence; a handle already fulfilled raises AlreadyCalledError.
\* Result: [h, exc, resumed].
\* A callback that fulfils the handle without resuming the generator that
\* waits on it, which C33_WaitsEnd rules out.
Deferred_callback_no_resume(h) ==
    [h |-> [h EXCEPT !.state = "fired"], exc |-> None, resumed |-> FALSE]
Deferred_callback_refire(h) ==
    [h |-> [h EXCEPT !.state = "fired"], exc |-> None, resumed |-> TRUE]
Deferred_callback(h) ==
    IF h.state = "pending"
    THEN [h |-> [h EXCEPT !.state = "fired"], exc |-> None, resumed |-> TRUE]
    ELSE [h |-> h,
          exc |-> IF h.state = "timedout" THEN None ELSE "AlreadyCalledError",
          resumed |-> FALSE]

\* listener.py 38-42: `except AlreadyCalledError: pass`
CaughtByProcessMessage(exc) == exc = "AlreadyCalledError"

\* listener.py 36-42: one turn of `for deferred in config.awaited_repos[tag]`.
\* The rebuild_batch that a fulfilled handle resumes runs build_components
\* before callback returns.
RepoDoneNext ==
    /\ UNCHANGED <<cfgvars, libvars>>
    /\ consumer.pc = "iter"
    /\ LET list == awaited_repos[consumer.tag] IN
       IF consumer.idx < Len(list)
       THEN LET d == list[consumer.idx + 1]
                o == deferreds[d].orch
                r == Deferred_callback(deferreds[d])
            IN  /\ consumer' = IF r.exc = None \/ CaughtByProcessMessage(r.exc)
                               THEN [consumer EXCEPT !.idx = @ + 1]
                               ELSE [consumer EXCEPT !.pc = "raised"]
                /\ deferreds' = [deferreds EXCEPT ![d] = r.h]
                /\ IF r.resumed
                   THEN Finish(o, build_components(main, dry_run, o,
                                        orchs[o].target, orchs[o].builds))
                   ELSE UNCHANGED <<orchs, calls>>
       ELSE /\ consumer' = [consumer EXCEPT !.pc = "del"]
            /\ UNCHANGED <<deferreds, orchs, calls>>
    /\ UNCHANGED <<message_queue, awaited_repos, batch_processor,
                   upstream_extra, nsidetags, msgs, last_msg, gap, admits,
                   flushes, side_targets, oneshot_rds>>

\* listener.py 44: del config.awaited_repos[tag]
RepoDoneDel ==
    /\ UNCHANGED <<cfgvars, libvars>>
    /\ consumer.pc = "del"
    /\ awaited_repos' = [k \in DOMAIN awaited_repos \ {consumer.tag} |->
                            awaited_repos[k]]
    /\ consumer' = [consumer EXCEPT !.pc = "idle"]
    /\ UNCHANGED <<message_queue, deferreds, orchs, batch_processor,
                   upstream_extra, nsidetags, calls, msgs, last_msg, gap,
                   admits, flushes, side_targets, oneshot_rds>>

(***************************************************************************)
(* The batch coalescer: process_batch, run by the LoopingCall.             *)
(***************************************************************************)
\* One key per drained item, repeated when two items share a target, which
\* C32_FlushPartitions rules out.
BatchTargets_per_item(q, seen) == [i \in 1..Len(q) |-> q[i].downstream_target]

\* The keys of `batches` in insertion order (listener.py 112-118).
RECURSIVE BatchTargets(_, _)
BatchTargets(q, seen) ==
    IF Len(q) = 0 THEN <<>>
    ELSE IF Head(q).downstream_target \in seen
         THEN BatchTargets(Tail(q), seen)
         ELSE <<Head(q).downstream_target>>
              \o BatchTargets(Tail(q), seen \cup {Head(q).downstream_target})

\* A batch in the reverse of the queue's order, which C21_PartitionFifo
\* rules out.
BatchOf_Reversed(q, target) ==
    LET Mine(rd) == rd.downstream_target = target
        b == SelectSeq(q, Mine)
    IN  [i \in 1..Len(b) |-> b[Len(b) + 1 - i]]

\* batches[target] (listener.py 116)
BatchOf(q, target) ==
    LET Mine(rd) == rd.downstream_target = target IN SelectSeq(q, Mine)

\* listener.py 111-126: the rebuild_batch runs process_batch schedules.
process_batch(q) ==
    LET ts == BatchTargets(q, {}) IN
    [i \in 1..Len(ts) |->
        [target |-> ts[i], builds |-> BatchOf(q, ts[i]), pc |-> "scheduled",
         pretag |-> FALSE, found |-> TRUE, built |-> FALSE]]

ProcessBatch ==
    /\ UNCHANGED <<cfgvars, libvars>>
    /\ proc = "running"
    /\ batch_processor.due
    /\ batch_processor' = LoopingCall_called(batch_processor)
    /\ message_queue' = <<>>
    /\ orchs' = orchs \o process_batch(message_queue)
    /\ flushes' = IF Len(message_queue) > 0
                  THEN Append(flushes,
                              [i \in 1..Len(message_queue) |-> message_queue[i].id])
                  ELSE flushes
    /\ UNCHANGED <<awaited_repos, deferreds, consumer, upstream_extra,
                   nsidetags, calls, msgs, last_msg, gap, admits,
                   side_targets, oneshot_rds>>

\* whether a rebuild_batch that deferLater(0) scheduled has yet to start
Scheduled == \E o \in 1..Len(orchs) : orchs[o].pc = "scheduled"

\* One second passes.  The event loop is not late by a second: a call that
\* has come due (process_batch, or a rebuild_batch that deferLater(0)
\* scheduled) runs, or is reset, before the next second passes, and so does
\* a dispatch the consumer has begun.  Time is followed as long as an event
\* is queued or can still arrive.
Tick ==
    /\ UNCHANGED <<cfgvars, libvars>>
    /\ proc = "running"
    /\ ~batch_processor.due
    /\ ~Scheduled
    /\ consumer.pc = "idle"
    /\ msgs.tag < MaxMsgs \/ Len(message_queue) > 0
    /\ batch_processor' = LoopingCall_tick(batch_processor)
    /\ gap' = Min(gap + 1, batch_timer)
    /\ UNCHANGED <<message_queue, awaited_repos, deferreds, orchs, consumer,
                   upstream_extra, nsidetags, calls, msgs, last_msg, admits,
                   flushes, side_targets, oneshot_rds>>

(***************************************************************************)
(* oneshot (daemon.py 90-165)                                              *)
(***************************************************************************)
\* str.lower order of the characters the selections are written in.
Alphabet ==
    <<"+", "-", ".", "/", "0", "1", "2", "3", "4", "5", "6", "7", "8", "9",
      ":", "_", "a", "b", "c", "d", "e", "f", "g", "h", "i", "j", "k", "l",
      "m", "n", "o", "p", "q", "r", "s", "t", "u", "v", "w", "x", "y", "z">>
Ord(ch) == CHOOSE i \in 1..Len(Alphabet) : Alphabet[i] = ch

RECURSIVE TextLess(_, _)
TextLess(a, b) ==
    IF Len(b) = 0 THEN FALSE
    ELSE IF Len(a) = 0 THEN TRUE
    ELSE IF Head(a) = Head(b) THEN TextLess(Tail(a), Tail(b))
    ELSE Ord(Head(a)) < Ord(Head(b))

\* sorted(compset, key=str.lower) (daemon.py 114)
RECURSIVE sorted(_)
sorted(S) ==
    IF S = {} THEN <<>>
    ELSE LET least == CHOOSE x \in S : \A y \in S \ {x} : TextLess(x, y)
         IN  <<least>> \o sorted(S \ {least})

\* cre.match(rec) (daemon.py 18-20, 115): [ok, namespace, component]
ComponentChars == {Alphabet[i] : i \in 1..Len(Alphabet)} \ {"/"}
cre_match(rec) ==
    LET parts == Split1(rec, "/")
        ok == /\ Len(parts) = 2
              /\ Join(parts[1]) \in {"rpms", "modules"}
              /\ Len(parts[2]) > 0
              /\ \A i \in 1..Len(parts[2]) : parts[2][i] \in ComponentChars
    IN  [ok |-> ok,
         namespace |-> IF ok THEN Join(parts[1]) ELSE "ignore",
         component |-> IF ok THEN parts[2] ELSE <<>>]

abc == <<"a", "b", "c">>
\* The source of the build the source build system reports for ns/comp:
\* with a ref after `#`, or without one.
TaggedScmurl(ns, comp, hasref) ==
    src_prefix \o NsText(ns) \o <<"/">> \o comp
    \o (IF hasref THEN <<"#">> \o abc ELSE <<>>)

\* daemon.py 114-158: the loop over the sorted selection.  env gives what
\* the source build system answers: untagged, the components get_build finds
\* no build for; noinfo, those get_build_info returns None for; noref, those
\* whose scmurl has no ref.  bound is whether the local ref_overrides has
\* been assigned by an earlier turn, and overrides its value then.
\* Result: [rds, ok, rpcs], ok FALSE when an exception ends oneshot.
RECURSIVE OneshotLoop(_, _, _, _, _, _)
OneshotLoop(m, c, recs, env, bound, overrides) ==
    IF Len(recs) = 0 THEN [rds |-> <<>>, ok |-> TRUE, rpcs |-> <<>>]
    ELSE
    LET mt   == cre_match(Head(recs))
        ns   == mt.namespace
        comp == mt.component
        skip == OneshotLoop(m, c, Tail(recs), env, bound, overrides)
        scmurl == TaggedScmurl(ns, comp, comp \notin env.noref)
        ref  == split_scmurl(scmurl).ref
        mine == IF ns = "modules" THEN << <<icu, r1>> >> ELSE <<>>
        nowbound == bound \/ ref # NoneText
        now == IF ref # NoneText THEN mine ELSE overrides
        rd == [ns |-> ns, comp |-> comp, version |-> NoneText,
               release |-> NoneText, scmurl |-> scmurl,
               downstream_target |-> NoneText, ref_overrides |-> now,
               id |-> 0]
        rest == OneshotLoop(m, c, Tail(recs), env, nowbound, now)
        rpc(op) == [op |-> op, ns |-> ns, comp |-> comp]
        lookups == <<rpc("listTagged"), rpc("getBuild")>>
    IN  IF ~mt.ok THEN skip
        ELSE IF comp \in m.control.exclude[ns] THEN skip
        ELSE IF m.control.strict /\ comp \notin DOMAIN c[ns] THEN skip
        ELSE IF comp \in env.untagged
             THEN [skip EXCEPT !.rpcs = <<rpc("listTagged")>> \o @]
        ELSE IF comp \in env.noinfo \/ ~nowbound
             THEN [rds |-> <<>>, ok |-> FALSE, rpcs |-> lookups]
        ELSE [rds |-> <<rd>> \o rest.rds, ok |-> rest.ok,
              rpcs |-> lookups \o rest.rpcs]

\* The selections of -s/--select, and what the trigger tag holds when
\* nothing is selected.
rpms_bash == <<"r","p","m","s","/">> \o bash
rpms_zsh == <<"r","p","m","s","/">> \o zsh
modules_nodejs_18 == <<"m","o","d","u","l","e","s","/">> \o nodejs_18
Selections == {rpms_bash, rpms_zsh, modules_nodejs_18, bash}
MaxSelect == 2
OneshotNames == {bash, zsh, nodejs_18}
AtMostOne(S) == {{}} \cup {{x} : x \in S}
OneshotEnvs == [untagged : AtMostOne(OneshotNames),
                noinfo : AtMostOne({bash}),
                noref : AtMostOne(OneshotNames)]

\* daemon.py 185-186 and 90-165: oneshot(compset).
Oneshot ==
    /\ proc = "oneshot"
    /\ \E select \in SUBSET Selections, tagged \in SUBSET EventNames,
          env \in OneshotEnvs :
          LET compset == IF select = {}
                         THEN {<<"r","p","m","s","/">> \o x : x \in tagged}
                         ELSE select
              r == OneshotLoop(main, comps, sorted(compset), env, FALSE, <<>>)
              b == build_components(main, dry_run, 0, NoneText, r.rds)
          IN  /\ Cardinality(select) <= MaxSelect
              /\ select # {} => tagged = {}
              /\ IF r.ok
                 THEN /\ oneshot_rds' = r.rds
                      /\ calls' = calls \o r.rpcs \o b.calls
                      /\ proc' = IF b.ok THEN "done" ELSE "crashed"
                 ELSE /\ calls' = calls \o r.rpcs
                      /\ proc' = "crashed"
                      /\ UNCHANGED oneshot_rds
    /\ UNCHANGED <<main, comps, config_ref, retry, retries_attr, dry_run,
                   distrogitsync, gitsync_up,
                   remote, pushes, updater, last_load, ticks>>
    /\ UNCHANGED <<message_queue, awaited_repos, deferreds, orchs,
                   batch_processor, consumer, upstream_extra, nsidetags,
                   msgs, last_msg, gap, admits, flushes, side_targets>>
    /\ UNCHANGED libvars

(***************************************************************************)
(* config.split_scmurl and config.split_module applied to drawn texts.     *)
(***************************************************************************)
\* The characters and the greatest length of the texts the two helpers are
\* applied to.
UrlAlphabet == {"a", "b", "/", "#", ":"}
MaxTextLen == 5
Texts == UNION {[1..n -> UrlAlphabet] : n \in 0..MaxTextLen}

NotApplied == [fn |-> "none"]

ApplySplitScmurl ==
    /\ applied' = [fn |-> "split_scmurl", result |-> split_scmurl(arg)]
    /\ UNCHANGED <<arg, sessions, clock, nsessions, last_get>>
    /\ UNCHANGED <<cfgvars, pipevars>>

ApplySplitModule ==
    /\ applied' = [fn |-> "split_module", result |-> split_module(arg)]
    /\ UNCHANGED <<arg, sessions, clock, nsessions, last_get>>
    /\ UNCHANGED <<cfgvars, pipevars>>

(***************************************************************************)
(* kojihelpers.get_buildsys: the per-role session cache.                   *)
(***************************************************************************)
Roles == {"source", "destination"}

\* Seconds in a day: datetime.timedelta keeps days and seconds apart.
day == 86400

\* datetime.timedelta of a seconds: .days and .seconds (0..86399).
timedelta(a) == [days |-> a \div day, seconds |-> a % day]

\* None where the code holds a session; the sessions are numbered from 1 in
\* the order of their construction.
NoSession == 0

\* hasattr(get_buildsys, which) is false for every role at import.
NoSessions ==
    [r \in Roles |-> [has |-> FALSE, session |-> NoSession, start |-> 0]]
NoGet == [which |-> "none"]

\* The instants at which the clock is read.
Instants == {0, 3549, 3550, 3551, 86400, 89951}

\* A staleness test that looks at the seconds part of the age only, which
\* C29_SessionCacheAmended rules out.
session_timed_out_seconds_only(cache, which, t) ==
    /\ cache[which].has
    /\ timedelta(t - cache[which].start).seconds > 3550

\* kojihelpers.py 29-37.
session_timed_out(cache, which, t) ==
    /\ cache[which].has
    /\ LET session_age == timedelta(t - cache[which].start)
       IN  session_age.seconds > 3550 \/ session_age.days > 0

\* kojihelpers.py 14-83.  cache is the function's attributes, n the number of
\* sessions constructed so far (the next one is n + 1), t the clock,
\* client_ok whether read_config and ClientSession succeed, login_ok whether
\* logout and gssapi_login do.
get_buildsys(m, cache, n, t, which, force_login, client_ok, login_ok) ==
    IF ~m.loaded THEN [result |-> NoSession, cache |-> cache]
    ELSE IF which \notin Roles THEN [result |-> NoSession, cache |-> cache]
    ELSE IF \/ session_timed_out(cache, which, t)
            \/ ~cache[which].has
            \/ force_login
         THEN IF ~client_ok THEN [result |-> NoSession, cache |-> cache]
              ELSE IF (which = "destination" \/ force_login) /\ ~login_ok
                   THEN [result |-> NoSession, cache |-> cache]
                   ELSE [result |-> n + 1,
                         cache |-> [cache EXCEPT ![which] =
                                       [has |-> TRUE, session |-> n + 1,
                                        start |-> t]]]
         ELSE [result |-> cache[which].session, cache |-> cache]

\* The most ClientSession objects a run constructs.
MaxSessions == 3

\* One call of get_buildsys.
GetBuildsys ==
    /\ \E which \in Roles \cup {"other"}, force_login \in BOOLEAN,
          client_ok \in BOOLEAN, login_ok \in BOOLEAN :
          LET r == get_buildsys(main, sessions, nsessions, clock, which,
                                force_login, client_ok, login_ok)
              made == r.result > nsessions
          IN  /\ made => nsessions < MaxSessions
              /\ sessions' = r.cache
              /\ nsessions' = IF made THEN nsessions + 1 ELSE nsessions
              /\ last_get' = [which |-> which, force_login |-> force_login,
                              client_ok |-> client_ok,
                              login_ok |-> login_ok,
                              pre |-> sessions, at |-> clock,
                              result |-> r.result]
    /\ UNCHANGED <<arg, applied, clock>>
    /\ UNCHANGED <<cfgvars, pipevars>>

\* Time passes between two calls.
Elapse ==
    /\ \E t \in Instants : t > clock /\ clock' = t
    /\ UNCHANGED <<arg, applied, sessions, nsessions, last_get>>
    /\ UNCHANGED <<cfgvars, pipevars>>

\* Nothing applied, nothing cached.
InitLib ==
    /\ arg = <<>>
    /\ applied = NotApplied
    /\ sessions = NoSessions
    /\ clock = 0
    /\ nsessions = 0
    /\ last_get = NoGet

(***************************************************************************)
(* The specifications.                                                     *)
(***************************************************************************)
\* The process state before daemon.main() has started anything.
InitPipe ==
    /\ message_queue = <<>>
    /\ awaited_repos = <<>>
    /\ deferreds = <<>>
    /\ orchs = <<>>
    /\ batch_processor = LoopingCall_start
    /\ consumer = [pc |-> "idle", tag |-> <<>>, idx |-> 0, before |-> {}]
    /\ upstream_extra = [t \in EventTags |-> NoneText]
    /\ nsidetags = 0
    /\ calls = <<>>
    /\ msgs = [tag |-> 0, done |-> 0]
    /\ last_msg = [topic |-> <<>>, name |-> <<>>, tag |-> <<>>, ns |-> "ignore",
                   admitted |-> FALSE, rpcs |-> {}]
    /\ gap = batch_timer
    /\ admits = <<>>
    /\ flushes = <<>>
    /\ side_targets = [t \in EventTags |-> {}]
    /\ oneshot_rds = <<>>

\* The loader and the reloader: main() from its start, the configuration
\* repository changing under it.
NextConfig == Push \/ Startup \/ UpdateGetRef \/ UpdateSkip \/ UpdateLoad

InitConfig == InitLoader /\ InitPipe /\ InitLib

SpecConfig == InitConfig /\ [][NextConfig]_vars

\* The documents the event pipeline runs under.
PipelineDocs ==
    {BaseDoc(strict, excl, sameprof) :
        strict \in BOOLEAN, excl \in {{bash}, {zsh}}, sameprof \in BOOLEAN}

\* The state after main() has loaded a configuration (daemon.py 181-183) and
\* has either started the loops (189-197) or is about to call oneshot (186).
Init ==
    /\ \E doc \in PipelineDocs :
          LET r == load_config(doc, TRUE, "ok", [ok |-> TRUE, names |-> {}])
          IN  /\ main = r.main
              /\ comps = r.comps
              /\ remote = [ref |-> "h1", doc |-> doc, file |-> "ok"]
              /\ last_load = [status |-> "ok", caller |-> "main",
                              attempts |-> 1, ref |-> "h1",
                              doc |-> doc, file |-> "ok",
                              cloned |-> TRUE,
                              pre |-> <<NoConfig, NoConfig, None>>]
    /\ config_ref = None
    /\ retry = 3
    /\ retries_attr = 3
    /\ dry_run \in BOOLEAN
    \* under dry_run the profiles are not compared (listener.py 135)
    /\ dry_run => main.source.profile = main.destination.profile
    /\ distrogitsync = endpoint
    /\ gitsync_up = TRUE
    /\ pushes = 0
    /\ proc \in {"running", "oneshot"}
    /\ updater = [running |-> FALSE, pc |-> "idle", ref |-> None]
    /\ ticks = <<>>
    /\ InitPipe
    /\ InitLib

\* The event pipeline under a configuration that does not change.
Next ==
    \/ ProcessTagMessage
    \/ ProcessOtherMessage
    \/ RepoDoneBegin
    \/ RepoDoneNext
    \/ RepoDoneDel
    \/ Tick
    \/ ProcessBatch
    \/ RebuildBatchStart
    \/ WaitRepoTimeout
    \/ Oneshot

Spec == Init /\ [][Next]_vars

\* A commit of the configuration repository that retargets the builds.
f43 == <<"f","4","3">>
RetargetedDoc == [GoodDoc EXCEPT !.build.target = f43]

\* The state after main() has loaded the configuration at h1 (daemon.py
\* 181) and started the reloader, the batch timer and the consumer (189-197),
\* with the configuration repository at h1 or at a later commit.
InitLive ==
    /\ LET r == load_config(GoodDoc, TRUE, "ok", [ok |-> TRUE, names |-> {}])
       IN  /\ main = r.main
           /\ comps = r.comps
    /\ last_load = [status |-> "ok", caller |-> "main", attempts |-> 1,
                    ref |-> "h1", doc |-> GoodDoc, file |-> "ok",
                    cloned |-> TRUE, pre |-> <<NoConfig, NoConfig, None>>]
    /\ remote \in {[ref |-> "h1", doc |-> GoodDoc, file |-> "ok"],
                   [ref |-> "h2", doc |-> RetargetedDoc, file |-> "ok"]}
    /\ config_ref = None
    /\ retry = 3
    /\ retries_attr = 3
    /\ dry_run = FALSE
    /\ distrogitsync = endpoint
    /\ gitsync_up = TRUE
    /\ pushes = 0
    /\ proc = "running"
    /\ updater = [running |-> TRUE, pc |-> "idle", ref |-> None]
    /\ ticks = <<>>
    /\ InitPipe
    /\ InitLib

\* The inputs of the runs with the reloader beside the pipeline: tagging
\* messages on the rpms trigger tag for a component whose enrichment
\* succeeds, at most MaxLiveMsgs of them and of repo.done messages, and
\* clones that succeed at the first attempt or at none.
MaxLiveMsgs == 1

LiveTagMessage ==
    /\ ProcessTagMessage
    /\ msgs'.tag <= MaxLiveMsgs
    /\ last_msg'.tag = f42_gate
    /\ last_msg'.name = bash
    /\ last_msg'.admitted
    /\ message_queue'[Len(message_queue')].scmurl # NoneText

LiveRepoDone ==
    /\ RepoDoneBegin
    /\ msgs'.done <= MaxLiveMsgs

LiveUpdateLoad ==
    /\ UpdateLoad
    /\ last_load'.attempts \in {1, retry}

\* The event pipeline with the reloader running beside it.
NextLive ==
    \/ UpdateGetRef
    \/ UpdateSkip
    \/ LiveUpdateLoad
    \/ LiveTagMessage
    \/ LiveRepoDone
    \/ RepoDoneNext
    \/ RepoDoneDel
    \/ Tick
    \/ ProcessBatch
    \/ RebuildBatchStart
    \/ WaitRepoTimeout

SpecLive == InitLive /\ [][NextLive]_vars

\* The state after main() has started the loops with dry-run off and build
\* systems that differ (no pre-tag step), without a git-sync endpoint or
\* with one that answers or fails.
InitSync ==
    /\ LET doc == BaseDoc(FALSE, {zsh}, FALSE)
           r == load_config(doc, TRUE, "ok", [ok |-> TRUE, names |-> {}])
       IN  /\ main = r.main
           /\ comps = r.comps
           /\ remote = [ref |-> "h1", doc |-> doc, file |-> "ok"]
           /\ last_load = [status |-> "ok", caller |-> "main", attempts |-> 1,
                           ref |-> "h1", doc |-> doc, file |-> "ok",
                           cloned |-> TRUE,
                           pre |-> <<NoConfig, NoConfig, None>>]
    /\ config_ref = None
    /\ retry = 3
    /\ retries_attr = 3
    /\ dry_run = FALSE
    /\ distrogitsync \in {NoneText, endpoint}
    /\ gitsync_up \in BOOLEAN
    /\ distrogitsync = NoneText => gitsync_up
    /\ pushes = 0
    /\ proc = "running"
    /\ updater = [running |-> FALSE, pc |-> "idle", ref |-> None]
    /\ ticks = <<>>
    /\ InitPipe
    /\ InitLib

\* The event pipeline without the pre-tag step.
NextSync ==
    \/ ProcessTagMessage
    \/ Tick
    \/ ProcessBatch
    \/ RebuildBatchStart

SpecSync == InitSync /\ [][NextSync]_vars

\* Documents whose modules trigger is a tag of its own, or a tag that has
\* the form of a side-tag of the rpms trigger.
TagDocs ==
    {[BaseDoc(strict, {zsh}, TRUE) EXCEPT !.trigger.modules = t] :
        strict \in BOOLEAN, t \in {f42_modules_gate, f42_build_stack_gate}}

\* The state after main() has loaded one of these documents and started the
\* loops.
InitTags ==
    /\ \E doc \in TagDocs :
          LET r == load_config(doc, TRUE, "ok", [ok |-> TRUE, names |-> {}])
          IN  /\ main = r.main
              /\ comps = r.comps
              /\ remote = [ref |-> "h1", doc |-> doc, file |-> "ok"]
              /\ last_load = [status |-> "ok", caller |-> "main",
                              attempts |-> 1, ref |-> "h1",
                              doc |-> doc, file |-> "ok", cloned |-> TRUE,
                              pre |-> <<NoConfig, NoConfig, None>>]
    /\ config_ref = None
    /\ retry = 3
    /\ retries_attr = 3
    /\ dry_run = FALSE
    /\ distrogitsync = NoneText
    /\ gitsync_up = TRUE
    /\ pushes = 0
    /\ proc = "running"
    /\ updater = [running |-> FALSE, pc |-> "idle", ref |-> None]
    /\ ticks = <<>>
    /\ InitPipe
    /\ InitLib

\* Tagging messages classified and queued, and the flush timer.
NextTags == ProcessTagMessage \/ Tick

SpecTags == InitTags /\ [][NextTags]_vars

\* The configuration a library call finds: main() has loaded GoodDoc.
InitLoaded ==
    /\ LET r == load_config(GoodDoc, TRUE, "ok", [ok |-> TRUE, names |-> {}])
       IN  /\ main = r.main
           /\ comps = r.comps
    /\ last_load = [status |-> "ok", caller |-> "main", attempts |-> 1,
                    ref |-> "h1", doc |-> GoodDoc, file |-> "ok",
                    cloned |-> TRUE, pre |-> <<NoConfig, NoConfig, None>>]
    /\ remote = [ref |-> "h1", doc |-> GoodDoc, file |-> "ok"]
    /\ config_ref = None
    /\ retry = 3
    /\ retries_attr = 3
    /\ dry_run = FALSE
    /\ distrogitsync = NoneText
    /\ gitsync_up = TRUE
    /\ pushes = 0
    /\ proc = "running"
    /\ updater = [running |-> FALSE, pc |-> "idle", ref |-> None]
    /\ ticks = <<>>
    /\ InitPipe

\* The event pipeline of a daemon that pre-tags (one build system, dry-run
\* off), with the event loop running the timed calls it holds: a wait
\* handle's timeout (Deferred.addTimeout, kojihelpers.py 300) is a call the
\* reactor makes once waitrepo_timeout has passed.
InitWait ==
    /\ InitLoaded
    /\ InitLib

\* The tagging messages of these runs: for bash, on the rpms trigger or on
\* a side-tag, with a source the build system reports.
WaitTagMessage ==
    /\ ProcessTagMessage
    /\ last_msg'.name = bash
    /\ last_msg'.tag \in {f42_gate, f42_build_stack_gate}
    /\ last_msg'.admitted => message_queue'[Len(message_queue')].scmurl # NoneText

NextWait ==
    \/ WaitTagMessage
    \/ RepoDoneBegin
    \/ RepoDoneNext
    \/ RepoDoneDel
    \/ Tick
    \/ ProcessBatch
    \/ RebuildBatchStart
    \/ WaitRepoTimeout

SpecWait == InitWait /\ [][NextWait]_vars /\ WF_vars(WaitRepoTimeout)

\* The fields of a component's route, and the documents whose components
\* block gives any of them explicitly: bash and nodejs:18 with the fields of
\* e1 and e2, zsh and nodejs with an empty entry; and the document that
\* takes its components from the Content Resolver.
RouteFields == {"source", "destination", "cache.source", "cache.destination"}
Explicit(p, e) == [f \in e |-> "explicit " \o p \o " " \o f]
RouteDocs ==
    {[GoodDoc EXCEPT !.components =
         [rpms    |-> (bash :> Explicit("bash", e1)) @@ (zsh :> <<>>),
          modules |-> (nodejs_18 :> Explicit("nodejs:18", e2))
                      @@ (nodejs :> <<>>)]] :
        e1 \in SUBSET RouteFields, e2 \in SUBSET RouteFields}
    \cup {[GoodDoc EXCEPT !.present = @ \ {"components"},
                          !.autopackagelist = "eln"]}

\* main() about to load one of these documents.
InitRoutes ==
    /\ main = NoConfig
    /\ comps = NoConfig
    /\ config_ref = None
    /\ retry = 3
    /\ retries_attr = "function"
    /\ dry_run = FALSE
    /\ distrogitsync = NoneText
    /\ gitsync_up = TRUE
    /\ remote \in [ref : {"h1"}, doc : RouteDocs, file : {"ok"}]
    /\ pushes = 0
    /\ proc = "start"
    /\ updater = [running |-> FALSE, pc |-> "idle", ref |-> None]
    /\ last_load = NoLoad
    /\ ticks = <<>>
    /\ InitPipe
    /\ InitLib

SpecRoutes == InitRoutes /\ [][Startup]_vars

\* split_scmurl and split_module applied to every text of Texts.
InitPure ==
    /\ InitLoaded
    /\ arg \in Texts
    /\ applied = NotApplied
    /\ sessions = NoSessions
    /\ clock = 0
    /\ nsessions = 0
    /\ last_get = NoGet

NextPure == ApplySplitScmurl \/ ApplySplitModule

SpecPure == InitPure /\ [][NextPure]_vars

\* get_buildsys called again and again while time passes.
InitSessions == InitLoaded /\ InitLib

NextSessions == GetBuildsys \/ Elapse

SpecSessions == InitSessions /\ [][NextSessions]_vars

(***************************************************************************)
(* Properties.                                                             *)
(***************************************************************************)
\* The calls of the log that the rebuild_batch run o issued, by position.
CallsOf(o, op) ==
    {i \in 1..Len(calls) :
        /\ "orch" \in DOMAIN calls[i]
        /\ calls[i].orch = o
        /\ calls[i].op = op}

\* Every RebuildData emitted so far: put on message_queue (and from there
\* drained into a batch), or handed to build_components by oneshot.
Emitted ==
    {message_queue[i] : i \in 1..Len(message_queue)}
    \cup UNION {{orchs[o].builds[i] : i \in 1..Len(orchs[o].builds)} :
                    o \in 1..Len(orchs)}
    \cup {oneshot_rds[i] : i \in 1..Len(oneshot_rds)}

\* C1: in a rebuild_batch run where the pre-tag step applies, every tagBuild
\* call of the batch precedes the registration of the wait handle for the
\* target's build tag, which precedes every build call of the batch.
C1_TagWaitBuild ==
    \A o \in 1..Len(orchs) :
        orchs[o].pretag =>
            /\ \A i \in CallsOf(o, "tagBuild") :
                  \A j \in CallsOf(o, "wait_repo") \cup CallsOf(o, "build") :
                      i < j
            /\ \A i \in CallsOf(o, "wait_repo") :
                  /\ calls[i].tag = BuildTagOf(orchs[o].target)
                  /\ \A j \in CallsOf(o, "build") : i < j
            /\ CallsOf(o, "build") # {} => CallsOf(o, "wait_repo") # {}

\* C1 witness: a run that tagged, waited and then submitted its builds.
C1_Witness ==
    \E o \in 1..Len(orchs) :
        /\ orchs[o].pretag
        /\ orchs[o].pc = "done"
        /\ CallsOf(o, "tagBuild") # {}
        /\ CallsOf(o, "wait_repo") # {}
        /\ CallsOf(o, "build") # {}

\* C2: when the handle returned by wait_repo times out, rebuild_batch still
\* calls build_components for the batch, and every build of the batch is
\* submitted.
C2_TimeoutProceeds ==
    \A d \in 1..Len(deferreds) :
        deferreds[d].state = "timedout" =>
            LET o == deferreds[d].orch IN
            /\ orchs[o].built
            /\ \A k \in 1..Len(orchs[o].builds) :
                  \E i \in CallsOf(o, "build") : calls[i].rd = orchs[o].builds[k]

\* Admitted events carry the ids 1, 2, ... in admission order.
InFlush(f, id) == \E k \in 1..Len(flushes[f]) : flushes[f][k] = id
SameFlush(i, j) == \A f \in 1..Len(flushes) : InFlush(f, i) <=> InFlush(f, j)
Apart(i, j) == \A f \in 1..Len(flushes) : ~(InFlush(f, i) /\ InFlush(f, j))

\* C3 as stated: consecutive admitted events less than batch_timer apart are
\* never separated by a flush, and consecutive admitted events at least
\* batch_timer apart never leave in the same flush.
C3_Batching ==
    \A i \in 2..Len(admits) :
        /\ admits[i].gap < batch_timer => SameFlush(i - 1, i)
        /\ admits[i].gap >= batch_timer => Apart(i - 1, i)

\* C3 amended: consecutive admitted events less than batch_timer apart are
\* never separated by a flush; two consecutive events leave in different
\* flushes exactly when process_batch drained the queue between their
\* admissions, which takes a gap of at least batch_timer but does not
\* follow from one.
C3_BatchingAmended ==
    \A i \in 2..Len(admits) :
        LET split == admits[i].flushes > admits[i - 1].flushes IN
        /\ admits[i].gap < batch_timer => ~split
        /\ split => Apart(i - 1, i)
        /\ ~split => SameFlush(i - 1, i)

\* C3 witness: two events less than batch_timer apart have left in one flush.
C3_Witness ==
    /\ Len(admits) = 2
    /\ admits[2].gap < batch_timer
    /\ \E f \in 1..Len(flushes) : InFlush(f, 1) /\ InFlush(f, 2)

\* C4: once process_message has handled a repo.done for tag T, no handle
\* that was registered under T before the event is still pending, and a
\* fulfilled handle's run has resumed.
C4_RepoDoneFulfils ==
    consumer.pc = "idle" =>
        \A d \in consumer.before :
            /\ deferreds[d].state # "pending"
            /\ deferreds[d].state = "fired" => orchs[deferreds[d].orch].built

\* C5: while main.control.strict is true, no RebuildData is emitted for a
\* component that is not a key of comps[ns].
C5_StrictGating ==
    main.control.strict =>
        /\ \A rd \in Emitted : rd.comp \in DOMAIN comps[rd.ns]
        /\ (last_msg.ns # "ignore"
            /\ last_msg.name \notin DOMAIN comps[last_msg.ns])
              => ~last_msg.admitted

\* C5 witness: strict mode has dropped an event on a watched tag whose
\* component is neither configured nor excluded.
C5_Witness ==
    /\ main.control.strict
    /\ last_msg.ns = "rpms"
    /\ last_msg.name \notin DOMAIN comps.rpms
    /\ last_msg.name \notin main.control.exclude.rpms
    /\ ~last_msg.admitted

\* The calls of the log made for the component comp of namespace ns.
CallsFor(ns, comp) ==
    {i \in 1..Len(calls) :
        \/ /\ "rd" \in DOMAIN calls[i]
           /\ calls[i].rd.ns = ns /\ calls[i].rd.comp = comp
        \/ /\ calls[i].op \in {"listTagged", "getBuild"}
           /\ calls[i].ns = ns /\ calls[i].comp = comp}

\* C6: for a component in main.control.exclude[ns] no RebuildData is emitted
\* and no build-system call is issued, by process_message or by oneshot.
C6_ExcludeDominance ==
    /\ \A rd \in Emitted : rd.comp \notin main.control.exclude[rd.ns]
    /\ \A ns \in Namespaces : \A comp \in main.control.exclude[ns] :
          CallsFor(ns, comp) = {}
    /\ (last_msg.ns # "ignore"
        /\ last_msg.name \in main.control.exclude[last_msg.ns])
          => ~last_msg.admitted /\ last_msg.rpcs = {}

\* C6 witness: with strict mode off, an event for a component that is both
\* excluded and configured has been dropped.
C6_Witness ==
    /\ ~main.control.strict
    /\ last_msg.ns = "rpms"
    /\ last_msg.name \in main.control.exclude.rpms
    /\ last_msg.name \in DOMAIN comps.rpms
    /\ ~last_msg.admitted

\* A load_config call that the specification counts as failed: no clone
\* succeeded, distrobaker.yaml is absent or unparsable, or the document
\* fails validation (the configuration block or a required key is missing).
LoadFailed(l) ==
    /\ l.status # "never"
    /\ \/ ~l.cloned
       \/ l.file # "ok"
       \/ ~Has(l.doc, "configuration")
       \/ ~(RequiredKeys \subseteq l.doc.present)

\* C7: after a failing load_config, called directly or from an
\* update_config tick, main, comps and config_ref are what they were before
\* the call.
C7_ConfigAtomicity ==
    LoadFailed(last_load) => <<main, comps, config_ref>> = last_load.pre

\* C8: load_config does not swap main/comps when a required key is missing,
\* so the live main holds every required key.
C8_RequiredKeys ==
    /\ main.loaded => RequiredKeys \subseteq main.keys
    /\ (last_load.status = "ok")
          => RequiredKeys \subseteq last_load.doc.present

\* The createSideTag calls of the log made for the upstream side-tag t.
CreateSideTagCalls(t) ==
    {i \in 1..Len(calls) :
        calls[i].op = "createSideTag" /\ calls[i].upstream = t}

\* C9: with dry-run off, the classifications of events on one upstream
\* side-tag all give the same downstream_target, and createSideTag is
\* called at most once for that side-tag.
C9_SideTagMemo ==
    ~dry_run =>
        \A t \in EventTags :
            /\ Cardinality(side_targets[t]) <= 1
            /\ Cardinality(CreateSideTagCalls(t)) <= 1

\* C9 witness: two events on the same upstream side-tag were classified one
\* after the other and wait in the queue with the same target.
C9_Witness ==
    /\ ~dry_run
    /\ Len(message_queue) = 2
    /\ message_queue[1].downstream_target # NoneText
    /\ message_queue[1].downstream_target = message_queue[2].downstream_target
    /\ \E t \in EventTags : Cardinality(CreateSideTagCalls(t)) = 1

\* C10: for an admitted event on the rpms trigger tag (no target override),
\* when the pre-tag step applies, tagBuild is called with main.build.target
\* and the event's NVR, and build afterwards with "{prefix}/rpms/{comp}#{ref}",
\* main.build.target and the configured scratch flag.
C10_TriggerTagCalls ==
    \A i \in 1..Len(calls) :
        ("rd" \in DOMAIN calls[i]
         /\ calls[i].orch # 0
         /\ orchs[calls[i].orch].pretag
         /\ calls[i].rd.ns = "rpms"
         /\ calls[i].rd.downstream_target = NoneText) =>
            LET rd == calls[i].rd IN
            /\ calls[i].op = "tagBuild" =>
                  /\ calls[i].target = main.build.target
                  /\ calls[i].nvr = Nvr(rd.comp, rd.version, rd.release)
            /\ calls[i].op = "build" =>
                  /\ calls[i].target = main.build.target
                  /\ calls[i].url = DownstreamScmurl(main.build.prefix, "rpms",
                                        rd.comp, split_scmurl(rd.scmurl).ref)
                  /\ calls[i].scratch = main.build.scratch
                  /\ \E j \in 1..(i - 1) :
                        calls[j].op = "tagBuild" /\ calls[j].rd = rd

\* C11: when a source build-system call fails while process_message enriches
\* an event, no RebuildData for the event is emitted.  get_scmurl turns a
\* failed getBuild into the scmurl None, so a RebuildData with that scmurl
\* stands for an event whose enrichment failed: none is on message_queue or
\* in the batch of an orchestration.
C11_EnrichmentFailureDrops ==
    /\ \A i \in 1..Len(message_queue) : message_queue[i].scmurl # NoneText
    /\ \A o \in 1..Len(orchs) : \A k \in 1..Len(orchs[o].builds) :
          orchs[o].builds[k].scmurl # NoneText

\* C12: in a run that reached build_components with dry-run off, a build
\* call is issued for every build of the batch whose scmurl was resolved,
\* whatever happened to the other builds of the batch.
C12_BatchContinues ==
    \A o \in 1..Len(orchs) :
        (orchs[o].built /\ ~dry_run) =>
            \A k \in 1..Len(orchs[o].builds) :
                orchs[o].builds[k].scmurl # NoneText =>
                    \E i \in CallsOf(o, "build") :
                        calls[i].rd = orchs[o].builds[k]

\* A rebuild_batch run that has started and has not ended: it waits for the
\* repository of its build tag.
InProgress(o) == orchs[o].pc = "waiting"

\* C13: no two rebuild_batch runs for the same downstream target are in
\* progress at the same time.
C13_NoOverlap ==
    \A o1, o2 \in 1..Len(orchs) :
        (o1 # o2 /\ orchs[o1].target = orchs[o2].target) =>
            ~(InProgress(o1) /\ InProgress(o2))

\* C14: an update_config tick that got a ref calls load_config exactly when
\* the ref differs from config_ref or autopackagelist is set; a tick that
\* skips leaves main, comps and config_ref as they were; and of two
\* consecutive ticks that observe the same ref, the second, with
\* autopackagelist unset, does not call load_config (and so does not clone).
C14_SkipUnchanged ==
    /\ \A k \in 1..Len(ticks) :
          ticks[k].raised = None =>
              /\ ticks[k].loaded <=>
                    (ticks[k].ref # ticks[k].pre[3] \/ ~ticks[k].unset)
              /\ ~ticks[k].loaded => ticks[k].post = ticks[k].pre
    /\ (/\ Len(ticks) = 2
        /\ ticks[1].raised = None /\ ticks[2].raised = None
        /\ ticks[1].ref = ticks[2].ref
        /\ ticks[2].unset) => ~ticks[2].loaded

\* C14 witness: a tick loaded the configuration at a ref and the next tick,
\* observing the same ref with autopackagelist unset, skipped.
C14_Witness ==
    /\ Len(ticks) = 2
    /\ ticks[1].loaded /\ ticks[1].raised = None
    /\ ticks[2].raised = None
    /\ ticks[1].ref = ticks[2].ref
    /\ ticks[2].unset
    /\ ~ticks[2].loaded
    /\ <<main, comps, config_ref>> = ticks[2].pre

\* C15: once a load has succeeded, config_ref is the ref of the commit that
\* the live main and comps were loaded from.
C15_ConfigRefTracksLoad ==
    last_load.status = "ok" => config_ref = last_load.ref

\* C16: a tick on which git ls-remote prints nothing raises UnknownRefError,
\* calls no load_config and leaves main, comps and config_ref as they were.
C16_UnknownRefSkips ==
    \A k \in 1..Len(ticks) :
        ticks[k].ref = None =>
            /\ ticks[k].raised = "UnknownRefError"
            /\ ~ticks[k].loaded
            /\ ticks[k].post = ticks[k].pre

\* C16 witness: a tick has found no matching ref while a configuration
\* loaded earlier is live.
C16_Witness ==
    /\ Len(ticks) > 0
    /\ ticks[Len(ticks)].ref = None
    /\ ticks[Len(ticks)].raised = "UnknownRefError"
    /\ main.loaded
    /\ <<main, comps, config_ref>> = ticks[Len(ticks)].pre

\* C17: the reloader goes on ticking after a tick that failed (unknown ref,
\* or a load that failed).
C17_ReloaderKeepsTicking ==
    (/\ proc = "running"
     /\ Len(ticks) > 0
     /\ \/ ticks[Len(ticks)].raised # None
        \/ ticks[Len(ticks)].loaded /\ last_load.status # "ok")
        => updater.running

\* The configuration that was live when process_message admitted the event
\* of the RebuildData rd.
SnapshotOf(rd) == admits[rd.id].main

\* C18: every value of main that the orchestration of an event uses is the
\* value of the configuration under which the event was classified: the
\* build call goes to the target, with the prefix and the scratch flag, of
\* that configuration.
C18_OneSnapshot ==
    \A i \in 1..Len(calls) :
        ("rd" \in DOMAIN calls[i] /\ calls[i].orch # 0
         /\ calls[i].op = "build") =>
            LET rd == calls[i].rd
                snap == SnapshotOf(rd)
            IN  /\ calls[i].target =
                      IF rd.downstream_target = NoneText
                      THEN snap.build.target ELSE rd.downstream_target
                /\ calls[i].url =
                      DownstreamScmurl(snap.build.prefix, rd.ns, rd.comp,
                                       split_scmurl(rd.scmurl).ref)
                /\ calls[i].scratch = snap.build.scratch

\* C19: a handle that has been fulfilled or has timed out never changes
\* again, and neither does the run that waited for it; process_message
\* passes over such a handle without raising.
C19_ResolvedOnce ==
    [][/\ \A d \in 1..Len(deferreds) :
             deferreds[d].state # "pending" =>
                 /\ deferreds'[d] = deferreds[d]
                 /\ orchs'[deferreds[d].orch] = orchs[deferreds[d].orch]
       /\ consumer'.pc # "raised"]_vars

\* C19 witness: the dispatch of a repo.done has passed over a handle that
\* had timed out.
C19_Witness ==
    /\ consumer.pc \in {"iter", "del"}
    /\ consumer.tag \in DOMAIN awaited_repos
    /\ \E k \in 1..consumer.idx :
          /\ k <= Len(awaited_repos[consumer.tag])
          /\ deferreds[awaited_repos[consumer.tag][k]].state = "timedout"

\* C20: outside a dispatch, every handle held in awaited_repos is pending.
C20_RegistryOnlyPending ==
    consumer.pc = "idle" =>
        \A tag \in DOMAIN awaited_repos :
            \A k \in 1..Len(awaited_repos[tag]) :
                deferreds[awaited_repos[tag][k]].state = "pending"

\* The calls of the log that rebuild_batch or build_components issued for
\* one build of a batch of the listener.
BatchCalls(op) ==
    {i \in 1..Len(calls) :
        /\ "rd" \in DOMAIN calls[i]
        /\ calls[i].orch # 0
        /\ calls[i].op = op}

\* C21: for two admitted events with the same downstream_target, the calls
\* for the one admitted first come first: its tagBuild precedes the other's
\* tagBuild and its build precedes the other's build, and the later event is
\* never tagged before the earlier one has been.
C21_PartitionFifo ==
    /\ \A op \in {"tagBuild", "build"} :
          \A i, j \in BatchCalls(op) :
              (/\ calls[i].rd.downstream_target = calls[j].rd.downstream_target
               /\ calls[i].rd.id < calls[j].rd.id) => i < j
    /\ \A j \in BatchCalls("tagBuild") :
          \A o \in 1..Len(orchs) : \A k \in 1..Len(orchs[o].builds) :
              LET rd == orchs[o].builds[k] IN
              (/\ rd.downstream_target = calls[j].rd.downstream_target
               /\ rd.id < calls[j].rd.id)
                 => \E i \in BatchCalls("tagBuild") :
                        calls[i].rd = rd /\ i < j

\* C21 witness: two events of one target partition that left in different
\* flushes have both been tagged and built.
C21_Witness ==
    \E i, j \in BatchCalls("build") :
        /\ calls[i].rd.downstream_target = calls[j].rd.downstream_target
        /\ calls[i].rd.id < calls[j].rd.id
        /\ calls[i].orch # calls[j].orch
        /\ \E a, b \in BatchCalls("tagBuild") :
              calls[a].rd = calls[i].rd /\ calls[b].rd = calls[j].rd

\* The git-sync requests that precede the build call at position i of the
\* log: those made since the previous build call.
SyncedBefore(i) ==
    LET prev == {j \in 1..(i - 1) : calls[j].op = "build"}
        from == IF prev = {} THEN 1
                ELSE (CHOOSE j \in prev : \A k \in prev : k <= j) + 1
    IN  {[ns |-> calls[j].ns, comp |-> calls[j].comp] :
            j \in {k \in from..(i - 1) : calls[k].op = "gitsync"}}

\* The components build_components has to git-sync for the RebuildData rd.
ToSync(rd) ==
    LET compset == GitSyncCompset(rd.ns, rd.comp, rd.ref_overrides)
    IN  {compset[k] : k \in 1..Len(compset)}

\* C22 as stated: with dry-run off, every build call is preceded by a
\* git-sync request for the build's component and for each rpm that its
\* ref_overrides names, whether or not the requests succeed.
C22_GitSyncFirst ==
    ~dry_run =>
        \A i \in 1..Len(calls) :
            calls[i].op = "build" => ToSync(calls[i].rd) \subseteq SyncedBefore(i)

\* C22 amended: the requests are made when a git-sync endpoint is
\* configured, and only then; with an endpoint, every build call is
\* preceded by the requests for its component and the rpms of its
\* ref_overrides, also when requests fail, and every build of a batch that
\* build_components went through to its end has its build call.
C22_GitSyncFirstAmended ==
    ~dry_run =>
        /\ \A i \in 1..Len(calls) :
              calls[i].op = "build" =>
                  SyncedBefore(i) = IF distrogitsync = NoneText THEN {}
                                    ELSE ToSync(calls[i].rd)
        /\ \A o \in 1..Len(orchs) :
              orchs[o].pc = "done" =>
                  \A k \in 1..Len(orchs[o].builds) :
                      \E i \in CallsOf(o, "build") :
                          calls[i].rd = orchs[o].builds[k]

\* C22 witness: with the endpoint configured and failing, the build of a
\* module with ref_overrides was submitted after the requests for the module
\* and for the rpm were made.
C22_Witness ==
    /\ ~dry_run
    /\ distrogitsync # NoneText
    /\ ~gitsync_up
    /\ \E i \in 1..Len(calls) :
          /\ calls[i].op = "build"
          /\ Len(calls[i].rd.ref_overrides) > 0
          /\ Cardinality(SyncedBefore(i)) = 2
          /\ \A j \in 1..(i - 1) : calls[j].op = "gitsync" => ~calls[j].ok

\* "{build_tag}-dry-run-mode-stack-gate" for the build tag of the configured
\* target.
DryRunSideTag ==
    BuildTagOf(main.build.target)
    \o <<"-","d","r","y","-","r","u","n","-","m","o","d","e",
         "-","s","t","a","c","k","-","g","a","t","e">>

StateChangingOps == {"tagBuild", "build", "createSideTag", "editTag2", "gitsync"}

C24_OneshotHandsAll ==
    proc \in {"done", "crashed"} =>
        /\ \A i \in 1..Len(calls) :
              calls[i].op = "getBuild" =>
                  \E k \in 1..Len(oneshot_rds) :
                      /\ oneshot_rds[k].ns = calls[i].ns
                      /\ oneshot_rds[k].comp = calls[i].comp
        /\ message_queue = <<>>
        /\ \A i \in 1..Len(calls) : calls[i].op # "tagBuild"
        /\ deferreds = <<>>

\* The rebuild_batch runs whose target lookup failed.
LookupFailed == {o \in 1..Len(orchs) : orchs[o].pretag /\ ~orchs[o].found}

\* C25: a rebuild_batch run whose target lookup failed ends there, with no
\* wait handle and no build call; and the step in which the lookup fails
\* changes no other run, and neither the queue, the flush timer, the
\* registry nor any wait handle.
C25_LookupFailureContained ==
    /\ [](\A o \in LookupFailed :
             /\ orchs[o].pc = "failed"
             /\ ~orchs[o].built
             /\ CallsOf(o, "build") = {}
             /\ CallsOf(o, "wait_repo") = {}
             /\ \A d \in 1..Len(deferreds) : deferreds[d].orch # o)
    /\ [][\A o \in 1..Len(orchs) :
             (orchs[o].pc = "scheduled" /\ orchs'[o].pretag /\ ~orchs'[o].found)
                => /\ \A o2 \in 1..Len(orchs) \ {o} : orchs'[o2] = orchs[o2]
                   /\ Len(orchs') = Len(orchs)
                   /\ UNCHANGED <<message_queue, batch_processor,
                                  awaited_repos, deferreds>>]_vars

\* C25 witness: of two runs scheduled by one flush, one ended at a failed
\* target lookup and the other has run to completion.
C25_Witness ==
    \E o1 \in LookupFailed : \E o2 \in 1..Len(orchs) :
        /\ o2 # o1
        /\ orchs[o2].pc = "done"
        /\ CallsOf(o2, "build") # {}
        /\ \E f \in 1..Len(flushes) :
              /\ InFlush(f, orchs[o1].builds[1].id)
              /\ InFlush(f, orchs[o2].builds[1].id)

\* Positions of the first and of the last c in t, 0 when t has none.
FirstIndex(t, c) ==
    IF \A j \in 1..Len(t) : t[j] # c THEN 0
    ELSE CHOOSE j \in 1..Len(t) : t[j] = c /\ \A k \in 1..(j - 1) : t[k] # c
LastIndex(t, c) ==
    IF \A j \in 1..Len(t) : t[j] # c THEN 0
    ELSE CHOOSE j \in 1..Len(t) : t[j] = c /\ \A k \in (j + 1)..Len(t) : t[k] # c

\* The last slash-separated segment of link, and the one before it (None
\* when link has one segment only).
LastSegment(link) == SubSeq(link, LastIndex(link, "/") + 1, Len(link))
SecondToLastSegment(link) ==
    IF LastIndex(link, "/") = 0 THEN NoneText
    ELSE LastSegment(SubSeq(link, 1, LastIndex(link, "/") - 1))

\* What the round trip asks of the result r for the reading link#ref of the
\* argument with its '#' at position i.
RoundTrip(r, i) ==
    /\ r.link = SubSeq(arg, 1, i - 1)
    /\ r.ref = SubSeq(arg, i + 1, Len(arg))
    /\ r.ns = SecondToLastSegment(SubSeq(arg, 1, i - 1))
    /\ r.comp = LastSegment(SubSeq(arg, 1, i - 1))

\* C26 as stated: for every way of reading the argument as link#ref with
\* non-empty link and ref, split_scmurl returns that link and that ref, and
\* ns and comp are the second-to-last and last slash-separated segments of
\* link; an argument without '#' gives ref None and one without '/' gives
\* ns None.
C26_SplitScmurlRoundTrip ==
    applied.fn = "split_scmurl" =>
        /\ \A i \in 2..(Len(arg) - 1) :
              arg[i] = "#" => RoundTrip(applied.result, i)
        /\ FirstIndex(arg, "#") = 0 => applied.result.ref = NoneText
        /\ FirstIndex(arg, "/") = 0 => applied.result.ns = NoneText

\* C26 amended: the same for the reading whose link holds no '#', that is,
\* the one that splits the argument at its first '#'.
C26_SplitScmurlAmended ==
    applied.fn = "split_scmurl" =>
        /\ \A i \in 2..(Len(arg) - 1) :
              i = FirstIndex(arg, "#") => RoundTrip(applied.result, i)
        /\ FirstIndex(arg, "#") = 0 => applied.result.ref = NoneText
        /\ FirstIndex(arg, "/") = 0 => applied.result.ns = NoneText

\* C26 witness: split_scmurl has been applied to a text link#ref whose link
\* has two segments or more and whose ref is not empty, and has returned
\* that ref and a namespace.
C26_Witness ==
    /\ applied.fn = "split_scmurl"
    /\ LET i == FirstIndex(arg, "#")
       IN  /\ i > 3
           /\ i < Len(arg)
           /\ LastIndex(SubSeq(arg, 1, i - 1), "/") > 1
           /\ applied.result.ref = SubSeq(arg, i + 1, Len(arg))
           /\ applied.result.ns # NoneText
           /\ applied.result.ns # <<>>

\* C27: split_module gives as name the text before the first ':' of its
\* argument (all of it when it has none) and as stream the text between the
\* first ':' and the second (or the end) when there is a first ':' and that
\* text is not empty, and "master" otherwise; whatever follows a second ':'
\* has no part in the result.
C27_SplitModuleDefault ==
    applied.fn = "split_module" =>
        LET i == FirstIndex(arg, ":")
            rest == SubSeq(arg, i + 1, Len(arg))
            j == FirstIndex(rest, ":")
            second == IF j = 0 THEN rest ELSE SubSeq(rest, 1, j - 1)
        IN  /\ applied.result.name = IF i = 0 THEN arg ELSE SubSeq(arg, 1, i - 1)
            /\ applied.result.stream =
                  IF i # 0 /\ second # <<>> THEN second
                  ELSE <<"m","a","s","t","e","r">>

\* C27 witness: split_module has been applied to a text of three fields
\* whose first and second fields are not empty, and has returned the second
\* field as the stream.
C27_Witness ==
    /\ applied.fn = "split_module"
    /\ LET i == FirstIndex(arg, ":")
           j == LastIndex(arg, ":")
       IN  /\ i > 1
           /\ j > i + 1
           /\ j < Len(arg)
           /\ applied.result.stream = SubSeq(arg, i + 1, j - 1)
           /\ FirstIndex(applied.result.stream, ":") = 0

\* The defaults templates of GoodDoc instantiated for the components of
\* RouteDocs, written out.
DefaultRoute(k, p) ==
    CASE k = "rpms" /\ p = bash ->
            [source |-> "bash.git#rawhide", destination |-> "bash.git#eln",
             cache |-> [source |-> "bash", destination |-> "bash"]]
      [] k = "rpms" /\ p = zsh ->
            [source |-> "zsh.git#rawhide", destination |-> "zsh.git#eln",
             cache |-> [source |-> "zsh", destination |-> "zsh"]]
      [] k = "modules" /\ p = nodejs_18 ->
            [source |-> "nodejs.git#18", destination |-> "nodejs#stream-18",
             cache |-> [source |-> "nodejs", destination |-> "nodejs"]]
      [] k = "modules" /\ p = nodejs ->
            [source |-> "nodejs.git#master",
             destination |-> "nodejs#stream-master",
             cache |-> [source |-> "nodejs", destination |-> "nodejs"]]

\* The field f of a route.
FieldOf(route, f) ==
    CASE f = "source"            -> route.source
      [] f = "destination"       -> route.destination
      [] f = "cache.source"      -> route.cache.source
      [] f = "cache.destination" -> route.cache.destination

\* The components a loaded document lists, with the entry of each: those of
\* its components block, or the packages the Content Resolver returned.
Listed(doc) ==
    IF Has(doc, "components") THEN doc.components
    ELSE [rpms |-> [p \in {bash, zsh} |-> <<>>]]

\* C28: after a successful load_config, every listed component has in comps
\* a route whose four fields are the explicit value where the component's
\* entry gives one and the instantiated default where it does not.
C28_RoutesFromDefaults ==
    last_load.status = "ok" =>
        \A k \in DOMAIN Listed(last_load.doc) :
            \A p \in DOMAIN Listed(last_load.doc)[k] :
                /\ p \in DOMAIN comps[k]
                /\ \A f \in RouteFields :
                      FieldOf(comps[k][p], f) =
                          IF f \in DOMAIN Listed(last_load.doc)[k][p]
                          THEN Listed(last_load.doc)[k][p][f]
                          ELSE FieldOf(DefaultRoute(k, p), f)

\* C28 witness: a document whose entry of bash gives destination and
\* cache.source only, and whose entry of nodejs:18 gives nothing, has been
\* loaded.
C28_Witness ==
    /\ last_load.status = "ok"
    /\ Has(last_load.doc, "components")
    /\ DOMAIN last_load.doc.components.rpms[bash] = {"destination", "cache.source"}
    /\ DOMAIN last_load.doc.components.modules[nodejs_18] = {}
    /\ comps.rpms[bash].source = "bash.git#rawhide"
    /\ comps.rpms[bash].destination = "explicit bash destination"
    /\ comps.rpms[bash].cache.source = "explicit bash cache.source"
    /\ comps.modules[nodejs_18].source = "nodejs.git#18"

\* C28 witness for the Content Resolver: its packages have been loaded with
\* the default routes.
C28_ResolverReached ==
    /\ last_load.status = "ok"
    /\ ~Has(last_load.doc, "components")
    /\ comps.rpms[zsh].destination = "zsh.git#eln"

\* The calls of get_buildsys the claim is about, and the age of the cached
\* session such a call found.
PlainGet == last_get.which \in Roles /\ ~last_get.force_login
AgeFound == last_get.at - last_get.pre[last_get.which].start

\* The last call returned the session it found cached and left the cache.
Reused ==
    /\ last_get.result = last_get.pre[last_get.which].session
    /\ sessions = last_get.pre

\* The last call constructed a session, cached it for its role with the
\* current time and returned it.
Refreshed ==
    /\ last_get.result # NoSession
    /\ \A r \in Roles : last_get.result # last_get.pre[r].session
    /\ sessions[last_get.which] =
          [has |-> TRUE, session |-> last_get.result, start |-> last_get.at]

\* The last call left the cache entry of the other role as it was.
OtherRoleKept ==
    \A r \in Roles \ {last_get.which} : sessions[r] = last_get.pre[r]

\* C29 as stated: without force_login, a cached session younger than 3550
\* seconds and than one day is returned; one aged 3550 seconds or more is
\* replaced by a new session that is cached and returned; the other role's
\* cache entry is not touched.
C29_SessionCache ==
    (PlainGet /\ last_get.pre[last_get.which].has) =>
        /\ (AgeFound < 3550 /\ AgeFound < day) => Reused
        /\ AgeFound >= 3550 => Refreshed
        /\ OtherRoleKept

\* C29 amended: the session is reused up to an age of 3550 seconds included;
\* above that, or with nothing cached, a new session is constructed (and
\* authenticated for destination) and, when that succeeds, cached and
\* returned, and otherwise None is returned and the cache is left; the other
\* role's cache entry is not touched.
C29_SessionCacheAmended ==
    PlainGet =>
        /\ IF last_get.pre[last_get.which].has /\ AgeFound <= 3550
           THEN Reused
           ELSE IF /\ last_get.client_ok
                   /\ (last_get.which = "destination" => last_get.login_ok)
                THEN Refreshed
                ELSE last_get.result = NoSession /\ sessions = last_get.pre
        /\ OtherRoleKept

\* C29 witness: a call without force_login found a session aged exactly 3550
\* seconds and returned it, the other role holding a session too.
C29_Witness ==
    /\ PlainGet
    /\ last_get.pre[last_get.which].has
    /\ AgeFound = 3550
    /\ Reused
    /\ \A r \in Roles : sessions[r].has

\* Reached as well: a call that found a session aged a day, or more than
\* 3550 seconds, and replaced it.
C29_RefreshReached ==
    /\ PlainGet
    /\ last_get.pre[last_get.which].has
    /\ AgeFound \in {3551, day}
    /\ Refreshed

\* The tags that are neither a trigger tag nor a side-tag of the rpms
\* trigger f42-gate.
Unwatched(tag) ==
    /\ tag # main.trigger.rpms
    /\ tag # main.trigger.modules
    /\ ~(StartsWith(tag, f42_build) /\ EndsWith(tag, dash_stack_gate))
    /\ ~StartsWith(tag, f42_build \o dash_side)

\* A step in which process_message handles a message whose topic does not
\* end with buildsys.tag or whose tag is not watched.
IgnoredStep ==
    /\ msgs'.tag = msgs.tag + 1
    /\ \/ ~EndsWith(last_msg'.topic, buildsys_tag)
       \/ Unwatched(last_msg'.tag)

\* A step of process_message on a repo.done message.
RepoDoneStep ==
    \/ msgs'.done = msgs.done + 1
    \/ consumer.pc \in {"iter", "del"} /\ consumer' # consumer

\* The calls a step adds are calls of rebuild_batch runs that were waiting
\* for the repository the consumer's message names.
OnlyResumedCalls ==
    /\ Len(calls') >= Len(calls)
    /\ SubSeq(calls', 1, Len(calls)) = calls
    /\ \A i \in (Len(calls) + 1)..Len(calls') :
          /\ "orch" \in DOMAIN calls'[i]
          /\ calls'[i].orch \in 1..Len(orchs)
          /\ orchs[calls'[i].orch].pc = "waiting"
          /\ \E d \in Pending(consumer.tag) :
                deferreds[d].orch = calls'[i].orch

C30_UntagReached ==
    /\ EndsWith(last_msg.topic, buildsys_untag)
    /\ Len(message_queue) = 1
    /\ batch_processor.phase = 1
C30_RepoDoneBuilt ==
    /\ consumer.pc = "iter"
    /\ consumer.idx = 1
    /\ \E o \in 1..Len(orchs) :
          /\ orchs[o].pc = "done"
          /\ orchs[o].pretag
          /\ CallsOf(o, "build") # {}

\* C31: a tagging event whose tag is the modules trigger is classified as
\* modules, is checked against the strict and exclude lists of the modules
\* namespace and, when admitted, is queued with namespace modules and no
\* target override, whether or not the tag has the form of a side-tag; and
\* the side-tag calls are made only for events whose tag is neither trigger
\* and has the form of a side-tag.
C31_FirstMatchOrder ==
    EndsWith(last_msg.topic, buildsys_tag) =>
        /\ last_msg.tag = main.trigger.modules =>
              /\ last_msg.ns = "modules"
              /\ (main.control.strict
                  /\ last_msg.name \notin DOMAIN comps.modules)
                    => ~last_msg.admitted
              /\ (last_msg.admitted /\ message_queue # <<>>) =>
                    LET rd == message_queue[Len(message_queue)]
                    IN  rd.ns = "modules" /\ rd.downstream_target = NoneText
        /\ (last_msg.rpcs \cap {"getTag", "getBuildTarget", "createSideTag",
                                "editTag2"} # {})
              => /\ last_msg.tag \notin {main.trigger.rpms, main.trigger.modules}
                 /\ ~Unwatched(last_msg.tag)

\* The places an admitted event is at: the queue, or a position in the batch
\* of a rebuild_batch run.
PlacesOf(id) ==
    {<<0, i>> : i \in {i \in 1..Len(message_queue) : message_queue[i].id = id}}
    \cup UNION {{<<o, k>> : k \in {k \in 1..Len(orchs[o].builds) :
                                      orchs[o].builds[k].id = id}} :
                   o \in 1..Len(orchs)}

\* A step in which process_batch runs: the flush timer's call is taken, and
\* it is not a message that reset the timer.
FlushStep ==
    /\ batch_processor.due
    /\ ~batch_processor'.due
    /\ msgs' = msgs

\* C32: a process_batch run empties the queue and appends to the runs one
\* run per distinct downstream_target of the drained items, each drained
\* item in the run of its own target and in no other, and nothing else in
\* those runs; a run that drains nothing schedules nothing and changes
\* nothing but the timer's own schedule.  So at every moment each admitted
\* event is in exactly one place, the queue or one position of one run.
C32_FlushPartitions ==
    /\ [](\A id \in 1..Len(admits) : Cardinality(PlacesOf(id)) = 1)
    /\ [][FlushStep =>
            LET new == (Len(orchs) + 1)..Len(orchs')
            IN  /\ message_queue' = <<>>
                /\ Len(orchs') >= Len(orchs)
                /\ SubSeq(orchs', 1, Len(orchs)) = orchs
                /\ \A o1, o2 \in new :
                      orchs'[o1].target = orchs'[o2].target => o1 = o2
                /\ {orchs'[o].target : o \in new} =
                      {message_queue[i].downstream_target :
                          i \in 1..Len(message_queue)}
                /\ \A i \in 1..Len(message_queue) :
                      \E o \in new :
                          /\ orchs'[o].target = message_queue[i].downstream_target
                          /\ \E k \in 1..Len(orchs'[o].builds) :
                                orchs'[o].builds[k] = message_queue[i]
                /\ \A o \in new : \A k \in 1..Len(orchs'[o].builds) :
                      /\ orchs'[o].builds[k].downstream_target = orchs'[o].target
                      /\ \E i \in 1..Len(message_queue) :
                            orchs'[o].builds[k] = message_queue[i]
                /\ message_queue = <<>> =>
                      UNCHANGED <<cfgvars, message_queue, awaited_repos,
                                  deferreds, orchs, consumer, calls, flushes,
                                  admits>>]_vars

\* C32 witness: one flush drained two events with different targets, and
\* each is in a run of its own.
C32_Witness ==
    \E f \in 1..Len(flushes) : \E o1, o2 \in 1..Len(orchs) :
        /\ Len(flushes[f]) = 2
        /\ o1 # o2
        /\ orchs[o1].target # orchs[o2].target
        /\ Len(orchs[o1].builds) = 1
        /\ Len(orchs[o2].builds) = 1
        /\ InFlush(f, orchs[o1].builds[1].id)
        /\ InFlush(f, orchs[o2].builds[1].id)

\* Reached as well: one flush drained two events with the same target into
\* one run.
C32_SameTargetReached ==
    \E o \in 1..Len(orchs) : Len(orchs[o].builds) = 2

\* C33: every wait handle that is pending is eventually fulfilled or timed
\* out, and every rebuild_batch run that waits eventually has gone on to
\* build_components or has ended.
C33_WaitsEnd ==
    \A n \in 1..MaxMsgs :
        /\ (n <= Len(deferreds) /\ deferreds[n].state = "pending")
              ~> (/\ n <= Len(deferreds)
                  /\ deferreds[n].state \in {"fired", "timedout"})
        /\ (n <= Len(orchs) /\ orchs[n].pc = "waiting")
              ~> (/\ n <= Len(orchs)
                  /\ orchs[n].pc \in {"done", "failed"})

\* C33 witness: one run has left its wait by a repo.done message and has
\* built, another by the timeout of its handle.
C33_Witness ==
    \E d1, d2 \in 1..Len(deferreds) :
        /\ deferreds[d1].state = "fired"
        /\ orchs[deferreds[d1].orch].pc = "done"
        /\ deferreds[d2].state = "timedout"
        /\ orchs[deferreds[d2].orch].pc # "waiting"

\* C34: a wait_repo registration never interleaves with the dispatch of a
\* repo.done message (while process_message is between its first look at
\* the registry and its del, no handle is pending under the tag that was not
\* pending when the dispatch began), and no handle leaves the registry
\* without having been resolved (every pending handle is in the list of its
\* tag).
C34_RegistryOnLoopThread ==
    /\ consumer.pc \in {"iter", "del"} =>
          Pending(consumer.tag) \subseteq consumer.before
    /\ \A d \in 1..Len(deferreds) :
          deferreds[d].state = "pending" =>
              /\ deferreds[d].tag \in DOMAIN awaited_repos
              /\ \E k \in 1..Len(awaited_repos[deferreds[d].tag]) :
                    awaited_repos[deferreds[d].tag][k] = d

\* C35: a load_config call that cloned the repository and read a document
\* with every required key, no components block and no
\* control.autopackagelist succeeds, and main and comps are then the new
\* main and a comps whose two namespaces are empty.
C35_LoadsWithoutComponents ==
    (/\ last_load.status # "never"
     /\ last_load.cloned
     /\ last_load.file = "ok"
     /\ RequiredKeys \subseteq last_load.doc.present
     /\ ~Has(last_load.doc, "components")
     /\ last_load.doc.autopackagelist = None)
        => /\ last_load.status = "ok"
           /\ main.loaded
           /\ comps = [k \in Namespaces |-> <<>>]

\* C36: a load_config call makes no more clone attempts than the retry
\* count the -r/--retry option set; when every attempt fails it has made
\* exactly that many, returns None and leaves main and comps as they were.
C36_RetryCount ==
    last_load.status # "never" =>
        /\ last_load.attempts <= retries_attr
        /\ ~last_load.cloned =>
              /\ last_load.attempts = retries_attr
              /\ last_load.status = "none"
              /\ <<main, comps>> = <<last_load.pre[1], last_load.pre[2]>>

====
